---- MODULE Spec2Model ----
(***************************************************************************)
(* A model of lag, a terminal viewer for elapsed times in log files.       *)
(*                                                                         *)
(*   SpecChart   ChartState (chart.rs): zoom_in, zoom_out, update, reset   *)
(*   SpecCursor  Cursor (cursor.rs): move_x, move_y and the boundary jumps *)
(*   SpecLoad    App::new (app.rs): fill_in_timestamps, diffs, the sort    *)
(*               of sorted_lines, the deltas and ChartState::new           *)
(*   SpecWrap    WordWrapper::next_line (gaugagraph.rs)                    *)
(*                                                                         *)
(* Rust's usize and isize are 64 bits wide.  A build with overflow checks  *)
(* (cargo's dev profile) panics when +, - or * overflows; a build without  *)
(* them (the release profile) wraps modulo 2^64.  overflow_checks is the   *)
(* build under which the program runs; both are modelled.  A panic ends    *)
(* the program: panicked holds its message and no operation runs after.    *)
(***************************************************************************)
EXTENDS Integers, Sequences, FiniteSets, TLC

VARIABLES
    overflow_checks,  \* the build: TRUE panics on integer overflow, FALSE wraps
    panicked,         \* "none", or the message of the panic that ended the run
    last_op,          \* the name of the operation that ran last
    \* ChartState
    num_lines,        \* deltas.len()
    interval,         \* <<lower, upper>>
    \* Cursor
    cursor,           \* [max_x, max_y, x, y]
    \* App::new
    log,              \* per input line, what extract_timestamp returned
    timestamps,       \* what fill_in_timestamps returned
    lines,            \* App::lines
    sorted_lines,     \* App::sorted_lines
    deltas,           \* ChartState::deltas
    cumulative_deltas, \* ChartState::cumulative_deltas
    \* WordWrapper, and what its caller has seen of it
    source,           \* the symbols the iterator was created over
    wrapping,         \* Gaugagraph::wrapping: which composer draw creates
    word_wrapper,     \* WordWrapper's fields; symbols is what the iterator
                      \* has yet to yield
    line_truncator,   \* LineTruncator's fields, likewise
    produced,         \* the lines next_line has returned, in order
    returned,         \* what the last call returned: "Some" or "None"
    \* App: the panel with the focus and the two scroll states
    active,
    log_scroll_state,
    diff_scroll_state,
    keys,             \* the number of key events handled so far
    \* main: the input worker, the channel and the main loop
    worker,           \* where the worker thread is in its loop
    channel,          \* the events sent and not yet received, oldest first
    main_loop,        \* where the main thread is in its loop
    write_actions,    \* Opt::write_actions.is_some()
    actions,          \* the key codes recorded for the action log
    sent,             \* the key codes the worker has sent, in order
    applied,          \* the key codes handle_key has been called with, in order
    \* the action log file and what was read back from it
    action_log,
    replayed,
    \* Gaugagraph::draw
    gauge,            \* ratios, scroll, the height of the text area, and y
    buf               \* the cells draw has set, in the order it set them

buildVars == <<overflow_checks, panicked, last_op>>
chartVars == <<num_lines, interval>>
cursorVars == <<cursor>>
loadVars == <<log, timestamps, lines, sorted_lines, deltas, cumulative_deltas>>

wrapVars ==
    <<source, wrapping, word_wrapper, line_truncator, produced, returned>>

appVars == <<active, log_scroll_state, diff_scroll_state, keys>>

mainVars == <<worker, channel, main_loop, write_actions, actions, sent, applied>>
replayVars == <<action_log, replayed>>
drawVars == <<gauge, buf>>

vars ==
    <<buildVars, chartVars, cursorVars, loadVars, wrapVars, appVars, mainVars,
      replayVars, drawVars>>

----------------------------------------------------------------------------
(* Bounds of the model. *)

\* The longest log of the chart's state machine.
MaxLines == 303

\* The largest maximum of a Cursor's grid.
MaxCursor == 3

\* The longest log App::new is given, and its latest timestamp, in
\* milliseconds.
MaxLogLen == 4
MaxTime == 2

\* The cap K of a ranking that keeps only the K largest gaps.
RankCap == 3

\* The longest symbol stream a line composer is given, and the largest
\* max_line_width.
MaxSymbols == 4
MaxWidth == 3

\* The number of key events a session of the model handles.
MaxKeys == 5

\* The number of zoom_out calls in a row that are followed up.
MaxZoomOuts == 8

\* The number of key codes recorded for an action log.
MaxActions == 2

\* The number of key events the worker sends in a session, and the number
\* of events the channel holds at once.
MaxSent == 2
MaxChannel == 3

----------------------------------------------------------------------------
(* The parts of the state a specification does not use. *)

NoChart == num_lines = 0 /\ interval = <<0, 0>>
NoCursor == cursor = [max_x |-> 0, max_y |-> 0, x |-> 0, y |-> 0]
NoLoad ==
    /\ log = <<>>
    /\ timestamps = <<>>
    /\ lines = <<>>
    /\ sorted_lines = <<>>
    /\ deltas = <<>>
    /\ cumulative_deltas = <<>>
NoWrap ==
    /\ source = <<>>
    /\ wrapping = FALSE
    /\ word_wrapper = [symbols |-> <<>>, max_line_width |-> 0,
                       current_line |-> <<>>, next_line |-> <<>>]
    /\ line_truncator = [symbols |-> <<>>, max_line_width |-> 0,
                         current_line |-> <<>>]
    /\ produced = <<>>
    /\ returned = "Some"
NoApp ==
    /\ active = "Log"
    /\ log_scroll_state =
           [total_lines |-> 0, current_line |-> 0, horizontal_scroll |-> 0]
    /\ diff_scroll_state =
           [total_lines |-> 0, current_line |-> 0, horizontal_scroll |-> 0]
    /\ keys = 0
NoReplay == action_log = [written |-> FALSE, json |-> <<>>] /\ replayed = <<>>
NoDraw ==
    /\ gauge = [ratios |-> <<>>, scroll |-> 0, height |-> 0, y |-> 0]
    /\ buf = <<>>
NoMain ==
    /\ worker = "idle"
    /\ channel = <<>>
    /\ main_loop = "idle"
    /\ write_actions = FALSE
    /\ actions = <<>>
    /\ sent = <<>>
    /\ applied = <<>>

----------------------------------------------------------------------------
(* usize: 64-bit unsigned integers, as four 16-bit limbs, least first.      *)

LimbBase == 2^16

\* The usize of a natural number below 2^31.
U64(n) == <<n % LimbBase, (n \div LimbBase) % LimbBase, 0, 0>>

\* The value of a usize below 2^31.
ToNat(u) == u[1] + LimbBase * u[2]

\* a > b
U64Gt(a, b) ==
    \/ a[4] > b[4]
    \/ a[4] = b[4] /\ a[3] > b[3]
    \/ a[4] = b[4] /\ a[3] = b[3] /\ a[2] > b[2]
    \/ a[4] = b[4] /\ a[3] = b[3] /\ a[2] = b[2] /\ a[1] > b[1]

\* a - b modulo 2^64; of: the subtraction overflowed (a < b).
U64Sub(a, b) ==
    LET d1 == a[1] - b[1]
        c1 == IF d1 < 0 THEN 1 ELSE 0
        d2 == a[2] - b[2] - c1
        c2 == IF d2 < 0 THEN 1 ELSE 0
        d3 == a[3] - b[3] - c2
        c3 == IF d3 < 0 THEN 1 ELSE 0
        d4 == a[4] - b[4] - c3
    IN  [v |-> <<d1 % LimbBase, d2 % LimbBase, d3 % LimbBase, d4 % LimbBase>>,
         of |-> d4 < 0]

\* a + b modulo 2^64; of: the addition overflowed.
U64Add(a, b) ==
    LET s1 == a[1] + b[1]
        s2 == a[2] + b[2] + (s1 \div LimbBase)
        s3 == a[3] + b[3] + (s2 \div LimbBase)
        s4 == a[4] + b[4] + (s3 \div LimbBase)
    IN  [v |-> <<s1 % LimbBase, s2 % LimbBase, s3 % LimbBase, s4 % LimbBase>>,
         of |-> s4 >= LimbBase]

\* m * a modulo 2^64 for a multiplier m below 2^15; of: the product overflowed.
U64Mul(m, a) ==
    LET p1 == m * a[1]
        p2 == m * a[2] + (p1 \div LimbBase)
        p3 == m * a[3] + (p2 \div LimbBase)
        p4 == m * a[4] + (p3 \div LimbBase)
    IN  [v |-> <<p1 % LimbBase, p2 % LimbBase, p3 % LimbBase, p4 % LimbBase>>,
         of |-> p4 >= LimbBase]

\* a / c, truncating, for a divisor c in 1..2^15-1.
U64Div(a, c) ==
    LET t4 == a[4]
        t3 == (t4 % c) * LimbBase + a[3]
        t2 == (t3 % c) * LimbBase + a[2]
        t1 == (t2 % c) * LimbBase + a[1]
    IN  <<t1 \div c, t2 \div c, t3 \div c, t4 \div c>>

----------------------------------------------------------------------------
(* ChartState (chart.rs) *)

\* ChartState::new: zoom_factor: 3.0 and horizontal_resolution: 100.
ZoomFactor == 3
HorizontalResolution == 100

\* The scale factors zoom_in and zoom_out pass to zoom, as fractions:
\* 1.0 / zoom_factor and zoom_factor.
ScaleIn == [num |-> 1, den |-> ZoomFactor]
ScaleOut == [num |-> ZoomFactor, den |-> 1]

\* (current_interval_length as f64 * scale_factor) as usize.  The product of
\* a length below 2^53 and the f64 nearest to 1/3 (which is 1/3 - 2^-54/3)
\* rounds to the exact quotient when the length is a multiple of 3 and keeps
\* its integer part otherwise; the products by 3.0 and by 0.5 are exact.  So
\* the cast yields the truncated exact product.
ScaleLength(length, scale) == (length * scale.num) \div scale.den

\* A zoom that is never refused.
BelowResolutionNever(target, horizontal_resolution) == FALSE

\* target_interval_length < horizontal_resolution: the zoom is refused.
BelowResolution(target, horizontal_resolution) == target < horizontal_resolution

\* A zoom that never falls back to the whole log.
ExceedsLogNever(target, n) == FALSE

\* target_interval_length > num_lines: the zoom shows the whole log.
ExceedsLog(target, n) == target > n

ZoomOk(iv) == [panic |-> "none", interval |-> iv]
ZoomPanic(msg, iv) == [panic |-> msg, interval |-> iv]

\* A recentering that keeps the absolute distance of either edge from the
\* focus line in proportion to the lengths, instead of counting steps.
RecenterAbsolute(current_line, n, iv, horizontal_resolution, target, checks) ==
    LET length == iv[2] - iv[1]
        lower_offset == ((current_line - iv[1]) * target) \div length
        upper_offset == ((iv[2] - current_line) * target) \div length
    IN  IF lower_offset > current_line THEN ZoomOk(<<0, target>>)
        ELSE IF current_line + upper_offset > n THEN ZoomOk(<<n - target, n>>)
        ELSE ZoomOk(<<current_line - lower_offset, current_line + upper_offset>>)

\* A recentering that tests the lower edge only.
RecenterLowerOnly(current_line, n, iv, horizontal_resolution, target, checks) ==
    LET current_step_size == (iv[2] - iv[1]) \div horizontal_resolution
        target_step_size == target \div horizontal_resolution
        target_lower_offset ==
            target_step_size * ((current_line - iv[1]) \div current_step_size)
        target_upper_offset ==
            target_step_size * ((iv[2] - current_line) \div current_step_size)
    IN  IF target_lower_offset > current_line THEN ZoomOk(<<0, target>>)
        ELSE ZoomOk(<<current_line - target_lower_offset,
                      current_line + target_upper_offset>>)

\* The recentering of zoom, lines 148-165, on usize values.  Every +, - and *
\* is checked when checks holds and wraps otherwise; a division by a zero
\* step size panics in every build.
Recenter(current_line, n, iv, horizontal_resolution, target, checks) ==
    LET current_step_size == (iv[2] - iv[1]) \div horizontal_resolution
    IN  IF current_step_size = 0
        THEN ZoomPanic("attempt to divide by zero", iv)
        ELSE
    LET lower_distance == U64Sub(U64(current_line), U64(iv[1]))
        upper_distance == U64Sub(U64(iv[2]), U64(current_line))
        current_lower_offset == U64Div(lower_distance.v, current_step_size)
        current_upper_offset == U64Div(upper_distance.v, current_step_size)
        target_step_size == target \div horizontal_resolution
        target_lower_offset == U64Mul(target_step_size, current_lower_offset)
        target_upper_offset == U64Mul(target_step_size, current_upper_offset)
        new_upper == U64Add(U64(current_line), target_upper_offset.v)
    IN  IF checks /\ (lower_distance.of \/ upper_distance.of)
        THEN ZoomPanic("attempt to subtract with overflow", iv)
        ELSE IF checks /\ (target_lower_offset.of \/ target_upper_offset.of)
        THEN ZoomPanic("attempt to multiply with overflow", iv)
        ELSE IF U64Gt(target_lower_offset.v, U64(current_line))
        THEN ZoomOk(<<0, target>>)
        ELSE IF checks /\ new_upper.of
        THEN ZoomPanic("attempt to add with overflow", iv)
        ELSE IF U64Gt(new_upper.v, U64(n))
        THEN ZoomOk(<<n - target, n>>)
        ELSE ZoomOk(<<current_line - ToNat(target_lower_offset.v),
                      ToNat(new_upper.v)>>)

\* fn zoom(current_line, num_lines, interval, horizontal_resolution,
\* scale_factor), under a build with or without overflow checks.
Zoom(current_line, n, iv, horizontal_resolution, scale, checks) ==
    LET current_interval_length == iv[2] - iv[1]
        target_interval_length == ScaleLength(current_interval_length, scale)
    IN  IF BelowResolution(target_interval_length, horizontal_resolution)
        THEN ZoomOk(iv)
        ELSE IF ExceedsLog(target_interval_length, n)
        THEN ZoomOk(<<0, n>>)
        ELSE Recenter(current_line, n, iv, horizontal_resolution,
                      target_interval_length, checks)

\* ChartState::interval_length
IntervalLength(iv) == iv[2] - iv[1]

\* usize::min
Min(a, b) == IF a < b THEN a ELSE b

\* An update that moves only the edge the focus line came close to.
UpdateIntervalStretching(current_line, n, iv) ==
    IF iv = <<0, n>> THEN iv
    ELSE
    LET margin == (iv[2] - iv[1]) \div 8
        target_upper == IF current_line + margin < n THEN current_line + margin ELSE n
        target_lower == IF current_line < margin THEN 0 ELSE current_line - margin
    IN  IF iv[2] < target_upper THEN <<iv[1], target_upper>>
        ELSE IF target_lower < iv[1] THEN <<target_lower, iv[2]>>
        ELSE iv

\* An update that waits until the focus line has left the interval.
UpdateIntervalWithoutMargin(current_line, n, iv) ==
    IF iv = <<0, n>> THEN iv
    ELSE IF iv[2] < current_line
    THEN <<iv[1] + (current_line - iv[2]), current_line>>
    ELSE IF current_line < iv[1]
    THEN <<current_line, iv[2] - (iv[1] - current_line)>>
    ELSE iv

\* ChartState::update: the interval after following current_line.
UpdateInterval(current_line, n, iv) ==
    IF iv = <<0, n>> THEN iv
    ELSE
    LET margin == IntervalLength(iv) \div 8
        lower == iv[1]
        upper == iv[2]
        target_upper == Min(current_line + margin, n)
        target_lower == IF current_line < margin THEN 0 ELSE current_line - margin
    IN  IF upper < target_upper
        THEN <<lower + (target_upper - upper), upper + (target_upper - upper)>>
        ELSE IF target_lower < lower
        THEN <<lower - (lower - target_lower), upper - (lower - target_lower)>>
        ELSE iv

\* ChartState::reset_zoom, which on_esc calls: the whole log.
ResetInterval(n) == <<0, n>>

\* The outcome of a zoom becomes the state: the new interval, or the panic.
ApplyZoom(op, r) ==
    /\ interval' = r.interval
    /\ panicked' = r.panic
    /\ last_op' = op
    /\ UNCHANGED <<overflow_checks, num_lines, cursorVars, loadVars, wrapVars, appVars,
                   mainVars, replayVars, drawVars>>

\* ChartState::zoom_in(current_line)
ZoomIn(current_line) ==
    /\ panicked = "none"
    /\ ApplyZoom("zoom_in",
                 Zoom(current_line, num_lines, interval, HorizontalResolution,
                      ScaleIn, overflow_checks))

\* ChartState::zoom_out(current_line)
ZoomOut(current_line) ==
    /\ panicked = "none"
    /\ ApplyZoom("zoom_out",
                 Zoom(current_line, num_lines, interval, HorizontalResolution,
                      ScaleOut, overflow_checks))

\* ChartState::update(current_line)
Update(current_line) ==
    /\ panicked = "none"
    /\ interval' = UpdateInterval(current_line, num_lines, interval)
    /\ last_op' = "update"
    /\ UNCHANGED <<overflow_checks, panicked, num_lines, cursorVars, loadVars, wrapVars, appVars,
                   mainVars, replayVars, drawVars>>

\* ChartState::reset_zoom()
Reset ==
    /\ panicked = "none"
    /\ interval' = ResetInterval(num_lines)
    /\ last_op' = "reset"
    /\ UNCHANGED <<overflow_checks, panicked, num_lines, cursorVars, loadVars, wrapVars, appVars,
                   mainVars, replayVars, drawVars>>

\* The log lengths of the chart's state machine: a single line, a log
\* shorter than the resolution, the shortest log a zoom_in changes, and the
\* longest log of the model.
ChartLines ==
    {1, HorizontalResolution - 1, ZoomFactor * HorizontalResolution, MaxLines}

\* ChartState::new(deltas) for a log of n lines, under either build.
InitChart ==
    /\ overflow_checks \in BOOLEAN
    /\ panicked = "none"
    /\ num_lines \in ChartLines
    /\ interval = <<0, num_lines>>
    /\ last_op = "new"
    /\ NoCursor
    /\ NoLoad
    /\ NoWrap
    /\ NoApp
    /\ NoMain
    /\ NoReplay
    /\ NoDraw

NextChart ==
    \/ \E current_line \in 0..(num_lines - 1) : ZoomIn(current_line)
    \/ \E current_line \in 0..(num_lines - 1) : ZoomOut(current_line)
    \/ \E current_line \in 0..(num_lines - 1) : Update(current_line)
    \/ Reset

SpecChart == InitChart /\ [][NextChart]_vars

----------------------------------------------------------------------------
(* Claims about the chart's interval, checked under SpecChart. *)

\* C1: after any sequence of zoom_in, zoom_out, update and reset, each with
\* any focus line in [0, N), the interval satisfies 0 <= lower < upper <= N;
\* zoom_out never produces an interval reaching outside [0, N).
C1_IntervalWithinLog ==
    /\ 0 <= interval[1]
    /\ interval[1] < interval[2]
    /\ interval[2] <= num_lines

\* A zoom_out that was recentered and snapped against the end of the log.
C1_Witness ==
    /\ last_op = "zoom_out"
    /\ panicked = "none"
    /\ interval[1] > 0
    /\ interval[2] = num_lines
    /\ IntervalLength(interval) >= ZoomFactor * HorizontalResolution

\* C2: for a log with N >= horizontal_resolution the interval is never
\* shorter than horizontal_resolution.
C2_LengthAtLeastResolution ==
    num_lines >= HorizontalResolution
        => IntervalLength(interval) >= HorizontalResolution

----------------------------------------------------------------------------
(* isize: 64-bit two's complement integers, as the usize of the same bits. *)

\* The isize of a small integer.
Isize(d) == IF d >= 0 THEN U64(d) ELSE U64Sub(U64(0), U64(-d)).v

\* isize::MIN and isize::MAX
IsizeMin == <<0, 0, 0, 2^15>>
IsizeMax == <<LimbBase - 1, LimbBase - 1, LimbBase - 1, 2^15 - 1>>

\* delta > 0
IsPositive(delta) == delta[4] < 2^15 /\ delta # U64(0)

\* -delta; of: the negation overflowed (delta is isize::MIN).
IsizeNeg(delta) == [v |-> U64Sub(U64(0), delta).v, of |-> delta = IsizeMin]

\* (u as usize).min(k) for a small k
MinWithSmall(u, k) == IF U64Gt(u, U64(k)) THEN k ELSE ToNat(u)

----------------------------------------------------------------------------
(* Cursor (cursor.rs) *)

\* Cursor::new(max_x, max_y)
NewCursor(max_x, max_y) == [max_x |-> max_x, max_y |-> max_y, x |-> 0, y |-> 0]

\* The branch of move_x and move_y for a positive delta:
\* pos += (delta as usize).min(max - pos)
MoveForward(pos, max, delta) == pos + MinWithSmall(delta, max - pos)

\* The branch for the other deltas: pos -= (-delta as usize).min(pos).  The
\* negation is checked when checks holds and wraps otherwise.
MoveBackward(pos, delta, checks) ==
    LET negated == IsizeNeg(delta)
    IN  IF checks /\ negated.of
        THEN [panic |-> "attempt to negate with overflow", pos |-> pos]
        ELSE [panic |-> "none", pos |-> pos - MinWithSmall(negated.v, pos)]

\* The coordinate after a move by delta, or the panic.
MoveCoordinate(pos, max, delta, checks) ==
    IF IsPositive(delta)
    THEN [panic |-> "none", pos |-> MoveForward(pos, max, delta)]
    ELSE MoveBackward(pos, delta, checks)

\* Cursor::move_x(delta)
MoveX(delta) ==
    /\ panicked = "none"
    /\ LET r == MoveCoordinate(cursor.x, cursor.max_x, delta, overflow_checks)
       IN  /\ cursor' = [cursor EXCEPT !.x = r.pos]
           /\ panicked' = r.panic
    /\ last_op' = "move_x"
    /\ UNCHANGED <<overflow_checks, chartVars, loadVars, wrapVars, appVars,
                   mainVars, replayVars, drawVars>>

\* Cursor::move_y(delta)
MoveY(delta) ==
    /\ panicked = "none"
    /\ LET r == MoveCoordinate(cursor.y, cursor.max_y, delta, overflow_checks)
       IN  /\ cursor' = [cursor EXCEPT !.y = r.pos]
           /\ panicked' = r.panic
    /\ last_op' = "move_y"
    /\ UNCHANGED <<overflow_checks, chartVars, loadVars, wrapVars, appVars,
                   mainVars, replayVars, drawVars>>

\* Cursor::move_to_left_boundary()
MoveToLeftBoundary ==
    /\ panicked = "none"
    /\ cursor' = [cursor EXCEPT !.x = 0]
    /\ last_op' = "move_to_left_boundary"
    /\ UNCHANGED <<overflow_checks, panicked, chartVars, loadVars, wrapVars, appVars,
                   mainVars, replayVars, drawVars>>

\* Cursor::move_to_right_boundary()
MoveToRightBoundary ==
    /\ panicked = "none"
    /\ cursor' = [cursor EXCEPT !.x = cursor.max_x]
    /\ last_op' = "move_to_right_boundary"
    /\ UNCHANGED <<overflow_checks, panicked, chartVars, loadVars, wrapVars, appVars,
                   mainVars, replayVars, drawVars>>

\* The deltas of the model: the small ones, which reach past both
\* boundaries of every grid, and the two extremes of isize.
Deltas ==
    {Isize(d) : d \in (0 - MaxCursor - 1)..(MaxCursor + 1)} \cup {IsizeMin, IsizeMax}

InitCursor ==
    /\ overflow_checks \in BOOLEAN
    /\ panicked = "none"
    /\ last_op = "new"
    /\ \E max_x \in 0..MaxCursor, max_y \in 0..MaxCursor :
           cursor = NewCursor(max_x, max_y)
    /\ NoChart
    /\ NoLoad
    /\ NoWrap
    /\ NoApp
    /\ NoMain
    /\ NoReplay
    /\ NoDraw

NextCursor ==
    \/ \E delta \in Deltas : MoveX(delta)
    \/ \E delta \in Deltas : MoveY(delta)
    \/ MoveToLeftBoundary
    \/ MoveToRightBoundary

SpecCursor == InitCursor /\ [][NextCursor]_vars

\* C3: a Cursor starts at (0,0) and, for any sequence of move_x and move_y
\* calls with any signed deltas, 0 <= x <= max_x and 0 <= y <= max_y hold
\* in every reachable state and no move fails.
C3_MovesStayInGridAndNeverFail ==
    /\ panicked = "none"
    /\ 0 <= cursor.x /\ cursor.x <= cursor.max_x
    /\ 0 <= cursor.y /\ cursor.y <= cursor.max_y

----------------------------------------------------------------------------
(* Option<DateTime<Utc>>: None is <<>>, Some(t) is <<t>>, with t the time  *)
(* in milliseconds.                                                        *)

None == <<>>
Some(t) == <<t>>
IsSome(o) == o # None
Unwrap(o) == o[1]

----------------------------------------------------------------------------
(* f64: IEEE 754 binary64, rounding to nearest, ties to even.  A finite    *)
(* value is sign * mant * 2^exp with mant a 53-bit integer held as a       *)
(* usize: 2^52 <= mant < 2^53, or mant = 0 and exp = 0 for zero, whose     *)
(* sign is not kept (0.0 == -0.0).  The magnitudes of the model stay far   *)
(* from the largest and the smallest exponent of the format.               *)

F64Zero == [kind |-> "finite", sign |-> 1, exp |-> 0, mant |-> U64(0)]
NaN == [kind |-> "NaN", sign |-> 1, exp |-> 0, mant |-> U64(0)]
Infinite(sign) == [kind |-> "infinite", sign |-> sign, exp |-> 0, mant |-> U64(0)]

\* 1.0 = 2^52 * 2^-52
F64One == [kind |-> "finite", sign |-> 1, exp |-> -52, mant |-> <<0, 0, 0, 16>>]

\* x == 0.0
F64IsZero(x) == x.kind = "finite" /\ x.mant = U64(0)

\* The remainder of a / c, for a divisor c in 1..2^15-1.
U64Rem(a, c) ==
    LET t4 == a[4]
        t3 == (t4 % c) * LimbBase + a[3]
        t2 == (t3 % c) * LimbBase + a[2]
        t1 == (t2 % c) * LimbBase + a[1]
    IN  t1 % c

\* a with its lowest bit set: a bit that stands for the non-zero bits below.
Jam(a) == IF a[1] % 2 = 0 THEN [a EXCEPT ![1] = @ + 1] ELSE a

\* a shifted right by d bits; the lowest bit of the result is set if a
\* non-zero bit was shifted out.
RECURSIVE ShiftRightJam(_, _)
ShiftRightJam(a, d) ==
    IF d = 0 THEN a
    ELSE IF d >= 64 THEN (IF a = U64(0) THEN a ELSE U64(1))
    ELSE LET k == IF d < 14 THEN d ELSE 14
             q == U64Div(a, 2^k)
         IN  ShiftRightJam(IF U64Rem(a, 2^k) = 0 THEN q ELSE Jam(q), d - k)

\* The f64 nearest to sign * x * 2^exp, for 2^56 <= x < 2^57: x holds the 53
\* bits of the result, three bits below them and a lowest bit that is set
\* if the exact value has non-zero bits further down.  A tie goes to the
\* even mantissa.
RoundPack(sign, exp, x) ==
    LET low == x[1] % 16
        m == U64Div(x, 16)
        up == low > 8 \/ (low = 8 /\ m[1] % 2 = 1)
        rounded == IF up THEN U64Add(m, U64(1)).v ELSE m
    IN  IF rounded[4] = 32
        THEN [kind |-> "finite", sign |-> sign, exp |-> exp + 5,
              mant |-> U64Div(rounded, 2)]
        ELSE [kind |-> "finite", sign |-> sign, exp |-> exp + 4,
              mant |-> rounded]

\* n, d and e scaled so that d <= n < 2 * d, with n / d * 2^e unchanged.
RECURSIVE ScaleToUnit(_, _, _)
ScaleToUnit(n, d, e) ==
    IF n < d THEN ScaleToUnit(2 * n, d, e - 1)
    ELSE IF n >= 2 * d THEN ScaleToUnit(n, 2 * d, e + 1)
    ELSE [n |-> n, d |-> d, e |-> e]

\* a as f64 / b as f64, for integers a and b of magnitude below 2^22, which
\* the casts convert exactly.  The quotient is developed by long division
\* to 57 bits, seven bytes after the leading one, and rounded.
F64Div(a, b) ==
    IF b = 0
    THEN IF a = 0 THEN NaN ELSE IF a > 0 THEN Infinite(1) ELSE Infinite(-1)
    ELSE IF a = 0 THEN F64Zero
    ELSE LET sign == IF (a > 0) = (b > 0) THEN 1 ELSE -1
             unit == ScaleToUnit(IF a > 0 THEN a ELSE 0 - a,
                                 IF b > 0 THEN b ELSE 0 - b, 0)
             d == unit.d
             r0 == unit.n - d
             r1 == (r0 * 256) % d
             r2 == (r1 * 256) % d
             r3 == (r2 * 256) % d
             r4 == (r3 * 256) % d
             r5 == (r4 * 256) % d
             r6 == (r5 * 256) % d
             r7 == (r6 * 256) % d
             x == <<((r5 * 256) \div d) * 256 + ((r6 * 256) \div d),
                    ((r3 * 256) \div d) * 256 + ((r4 * 256) \div d),
                    ((r1 * 256) \div d) * 256 + ((r2 * 256) \div d),
                    256 + ((r0 * 256) \div d)>>
         IN  RoundPack(sign, unit.e - 56, IF r7 = 0 THEN x ELSE Jam(x))

\* |x| < |y|, for finite non-zero x and y.
MagnitudeLess(x, y) ==
    \/ x.exp < y.exp
    \/ x.exp = y.exp /\ U64Gt(y.mant, x.mant)

\* a doubled until it has 57 bits, and the exponent that goes with it.
RECURSIVE NormalizeLeft(_, _)
NormalizeLeft(a, exp) ==
    IF a[4] >= 256 THEN [x |-> a, exp |-> exp]
    ELSE NormalizeLeft(U64Add(a, a).v, exp - 1)

\* big + small for finite non-zero values with |big| >= |small|: the
\* mantissas get four more bits, the smaller one is shifted to the exponent
\* of the larger one, and the sum or the difference is rounded.
AddOrdered(big, small) ==
    LET a == U64Mul(16, big.mant).v
        b == ShiftRightJam(U64Mul(16, small.mant).v, big.exp - small.exp)
    IN  IF big.sign = small.sign
        THEN LET sum == U64Add(a, b).v
             IN  IF sum[4] >= 512
                 THEN RoundPack(big.sign, big.exp - 4 + 1, ShiftRightJam(sum, 1))
                 ELSE RoundPack(big.sign, big.exp - 4, sum)
        ELSE LET difference == U64Sub(a, b).v
             IN  IF difference = U64(0) THEN F64Zero
                 ELSE LET normal == NormalizeLeft(difference, big.exp - 4)
                      IN  RoundPack(big.sign, normal.exp, normal.x)

\* x + y
F64Add(x, y) ==
    IF x.kind = "NaN" \/ y.kind = "NaN" THEN NaN
    ELSE IF x.kind = "infinite" /\ y.kind = "infinite"
    THEN IF x.sign = y.sign THEN x ELSE NaN
    ELSE IF x.kind = "infinite" THEN x
    ELSE IF y.kind = "infinite" THEN y
    ELSE IF F64IsZero(x) THEN y
    ELSE IF F64IsZero(y) THEN x
    ELSE IF MagnitudeLess(x, y) THEN AddOrdered(y, x)
    ELSE AddOrdered(x, y)

\* -1, 0 or 1 as x is negative, zero or positive, for x that is not NaN.
F64Signum(x) == IF F64IsZero(x) THEN 0 ELSE x.sign

\* x < y
F64Lt(x, y) ==
    /\ x.kind # "NaN" /\ y.kind # "NaN"
    /\ \/ F64Signum(x) < F64Signum(y)
       \/ /\ F64Signum(x) = F64Signum(y)
          /\ F64Signum(x) # 0
          /\ LET smaller == IF x.sign = 1 THEN x ELSE y
                 larger == IF x.sign = 1 THEN y ELSE x
             IN  /\ smaller.kind = "finite"
                 /\ larger.kind = "infinite" \/ MagnitudeLess(smaller, larger)

\* x <= y
F64Le(x, y) == x.kind # "NaN" /\ y.kind # "NaN" /\ (x = y \/ F64Lt(x, y))

----------------------------------------------------------------------------
(* App::new (app.rs) *)

\* lines.iter().find(|l| l.is_some()): the first entry with a timestamp.
RECURSIVE Find(_)
Find(opts) ==
    IF opts = <<>> THEN None
    ELSE IF IsSome(Head(opts)) THEN Head(opts)
    ELSE Find(Tail(opts))

\* A loop that never moves prev on.
NextPrevStale(prev, line) == prev

\* The loop of fill_in_timestamps: what is pushed for a line, and prev after it.
Pushed(prev, line) == IF IsSome(line) THEN Unwrap(line) ELSE prev
NextPrev(prev, line) == IF IsSome(line) THEN Unwrap(line) ELSE prev

\* prev after the loop has handled the lines lo..hi, having been prev before
\* them: the lines are handled in order, a half of them after the other.
RECURSIVE PrevAfter(_, _, _, _)
PrevAfter(opts, lo, hi, prev) ==
    IF lo > hi THEN prev
    ELSE IF lo = hi THEN NextPrev(prev, opts[lo])
    ELSE LET mid == (lo + hi) \div 2
         IN  PrevAfter(opts, mid + 1, hi, PrevAfter(opts, lo, mid, prev))

\* for line in lines { .. }: the i-th push is made with the prev that the
\* lines before the i-th leave.
FillLoop(opts, prev) ==
    <<>> \o [i \in 1..Len(opts) |->
                Pushed(PrevAfter(opts, 1, i - 1, prev), opts[i])]

\* A first timestamp that falls back to 0 when no line has one.
FirstTimestampOrZero(opts) ==
    IF Find(opts) = None THEN [panic |-> "none", first |-> 0]
    ELSE [panic |-> "none", first |-> Unwrap(Find(opts))]

\* find(..).expect("Unable to extract valid timestamp from any line").unwrap()
FirstTimestamp(opts) ==
    IF Find(opts) = None
    THEN [panic |-> "Unable to extract valid timestamp from any line", first |-> 0]
    ELSE [panic |-> "none", first |-> Unwrap(Find(opts))]

\* fn fill_in_timestamps(lines)
FillInTimestamps(opts) ==
    LET first == FirstTimestamp(opts)
    IN  IF first.panic # "none"
        THEN [panic |-> first.panic, result |-> <<>>]
        ELSE [panic |-> "none", result |-> FillLoop(opts, first.first)]

\* Differences that are cut off at zero.
DiffsClamped(ts) ==
    [i \in 1..Len(ts) |->
        IF i = 1 \/ ts[i] < ts[i - 1] THEN 0 ELSE ts[i] - ts[i - 1]]

\* fn diffs(timestamps)
Diffs(ts) == [i \in 1..Len(ts) |-> IF i = 1 THEN 0 ELSE ts[i] - ts[i - 1]]

\* fn create_annotated_lines(lines, timestamps): an AnnotatedLine is its
\* line_number, timestamp and elapsed; the text of the line is left out.
CreateAnnotatedLines(ts) ==
    [i \in 1..Len(ts) |->
        [line_number |-> i - 1, timestamp |-> ts[i], elapsed |-> Diffs(ts)[i]]]

\* A comparison that sorts by increasing elapsed time.
CompareAscending(x, y) ==
    IF x.elapsed < y.elapsed THEN "Less"
    ELSE IF x.elapsed = y.elapsed THEN "Equal" ELSE "Greater"

\* |x, y| y.elapsed.cmp(&x.elapsed)
Compare(x, y) ==
    IF y.elapsed < x.elapsed THEN "Less"
    ELSE IF y.elapsed = x.elapsed THEN "Equal" ELSE "Greater"

\* slice::sort_by, a stable sort: an element comes behind every element that
\* compares less than it and behind every earlier element that compares
\* equal to it.  SortedPosition is where the i-th element comes.
SortedPosition(seq, i) ==
    1 + Cardinality({j \in 1..Len(seq) : Compare(seq[j], seq[i]) = "Less"})
      + Cardinality({j \in 1..(i - 1) : Compare(seq[j], seq[i]) = "Equal"})

SortBy(seq) ==
    LET position == <<>> \o [i \in 1..Len(seq) |-> SortedPosition(seq, i)]
    IN  [r \in 1..Len(seq) |-> seq[CHOOSE i \in 1..Len(seq) : position[i] = r]]

\* A ranking cut off after its first RankCap entries.
SortedLinesCapped(ls) == SubSeq(SortBy(ls), 1, Min(RankCap, Len(ls)))

\* let mut sorted_lines = lines.clone(); sorted_lines.sort_by(..)
SortedLines(ls) == SortBy(ls)

\* The deltas of App::new: elapsed / total_millis, per line.
Normalize(ls) ==
    LET total_time == ls[Len(ls)].timestamp - ls[1].timestamp
    IN  <<>> \o [i \in 1..Len(ls) |-> F64Div(ls[i].elapsed, total_time)]

\* The entries lo..hi of the cumulative deltas, before being the entry
\* ahead of them: cumulative_deltas[i] += cumulative_deltas[i - 1], index
\* after index, a half of the indices after the other.
RECURSIVE Accumulate(_, _, _, _)
Accumulate(ds, lo, hi, before) ==
    IF lo = hi THEN <<F64Add(ds[lo], before)>>
    ELSE LET mid == (lo + hi) \div 2
             left == Accumulate(ds, lo, mid, before)
         IN  left \o Accumulate(ds, mid + 1, hi, left[Len(left)])

\* Cumulative deltas that are the deltas, with nothing added up.
PrefixSumsNone(ds) == ds

\* The prefix sums of ChartState::new: cumulative_deltas starts as a clone
\* of deltas and the loop runs over 1..len.
PrefixSums(ds) ==
    IF Len(ds) <= 1 THEN ds
    ELSE <<ds[1]>> \o Accumulate(ds, 2, Len(ds), ds[1])

\* App::new(log): the fields of the App, or the panic.
NewApp(opts) ==
    LET filled == FillInTimestamps(opts)
        ls == CreateAnnotatedLines(filled.result)
        failed(msg) ==
            [panic |-> msg, timestamps |-> <<>>, lines |-> <<>>,
             sorted_lines |-> <<>>, deltas |-> <<>>, cumulative_deltas |-> <<>>]
    IN  IF filled.panic # "none" THEN failed(filled.panic)
        ELSE IF Len(ls) = 0 THEN failed("index out of bounds")
        ELSE [panic |-> "none",
              timestamps |-> filled.result,
              lines |-> ls,
              sorted_lines |-> SortedLines(ls),
              deltas |-> Normalize(ls),
              cumulative_deltas |-> PrefixSums(Normalize(ls))]

\* App::new(log), once.
AppNew ==
    /\ last_op = "start"
    /\ LET new_app == NewApp(log)
       IN  /\ panicked' = new_app.panic
           /\ timestamps' = new_app.timestamps
           /\ lines' = new_app.lines
           /\ sorted_lines' = new_app.sorted_lines
           /\ deltas' = new_app.deltas
           /\ cumulative_deltas' = new_app.cumulative_deltas
           /\ num_lines' = Len(new_app.deltas)
           /\ interval' = <<0, Len(new_app.deltas)>>
    /\ last_op' = "App::new"
    /\ UNCHANGED <<overflow_checks, log, cursorVars, wrapVars, appVars,
                   mainVars, replayVars, drawVars>>

\* What extract_timestamp returns for a line: none or a time.
Options == {None} \cup {Some(t) : t \in 0..MaxTime}

\* A log with timestamps at 0, 100, 100, 600 and 650 ms.
ExampleLog == <<Some(0), Some(100), Some(100), Some(600), Some(650)>>

\* A log with timestamps at 0, 1, 5 and 6 ms: its deltas 1/6, 4/6 and 1/6
\* are rounded.
RoundingLog == <<Some(0), Some(1), Some(5), Some(6)>>

\* The logs of the model: every log of at most MaxLogLen lines, the empty
\* one included, and the two examples.
Logs ==
    UNION {[1..n -> Options] : n \in 0..MaxLogLen} \cup {ExampleLog, RoundingLog}

InitLoad ==
    /\ overflow_checks = FALSE
    /\ panicked = "none"
    /\ last_op = "start"
    /\ log \in Logs
    /\ timestamps = <<>>
    /\ lines = <<>>
    /\ sorted_lines = <<>>
    /\ deltas = <<>>
    /\ cumulative_deltas = <<>>
    /\ NoChart
    /\ NoCursor
    /\ NoWrap
    /\ NoApp
    /\ NoMain
    /\ NoReplay
    /\ NoDraw

NextLoad == AppNew

SpecLoad == InitLoad /\ [][NextLoad]_vars

\* App::new returned an App.
Constructed == last_op = "App::new" /\ panicked = "none"

----------------------------------------------------------------------------
(* Claims about App::new, checked under SpecLoad. *)

\* The largest and the smallest element of a non-empty set of numbers.
MaxOf(S) == CHOOSE x \in S : \A y \in S : y <= x
MinOf(S) == CHOOSE x \in S : \A y \in S : x <= y

\* C4: for N optional timestamps with at least one present,
\* fill_in_timestamps returns exactly N timestamps: every present entry is
\* kept, every missing entry before the first present one equals that first
\* present timestamp, and every later missing entry equals the nearest
\* preceding present timestamp.
C4_FillInCarriesForward ==
    Constructed =>
        /\ Len(timestamps) = Len(log)
        /\ \A i \in 1..Len(log) :
               LET present == {j \in 1..Len(log) : IsSome(log[j])}
                   before == {j \in present : j <= i}
               IN  timestamps[i] =
                       IF before # {} THEN Unwrap(log[MaxOf(before)])
                       ELSE Unwrap(log[MinOf(present)])

\* A log that starts without a timestamp, and has a later line without one
\* whose carried timestamp differs from the first.
C4_Witness ==
    /\ Constructed
    /\ log[1] = None
    /\ \E k \in 3..Len(log) :
           /\ log[k] = None
           /\ IsSome(log[k - 1])
           /\ timestamps[k] # timestamps[1]

\* C5: line i carries index i, elapsed[0] = 0 and elapsed[i] =
\* timestamp[i] - timestamp[i-1] for i > 0, the sign preserved; timestamps
\* 0, 100, 100, 600, 650 ms give elapsed 0, 100, 0, 500, 50 ms.
C5_ElapsedIsDifference ==
    Constructed =>
        /\ Len(lines) = Len(log)
        /\ \A i \in 1..Len(lines) :
               /\ lines[i].line_number = i - 1
               /\ lines[i].timestamp = timestamps[i]
               /\ lines[i].elapsed =
                      IF i = 1 THEN 0 ELSE timestamps[i] - timestamps[i - 1]
        /\ log = ExampleLog =>
               [i \in 1..Len(lines) |-> lines[i].elapsed] = <<0, 100, 0, 500, 50>>

\* A log whose timestamps regress: a negative elapsed time.
C5_Witness == Constructed /\ \E i \in 1..Len(lines) : lines[i].elapsed < 0

\* C6: sorted_lines contains only lines of the annotated set, each at most
\* once, is non-increasing by elapsed (negative values included), lists
\* equal elapsed values in ascending line index, and starts with a line of
\* maximal elapsed (line 3, 500 ms, for the example).
C6_RankingIsSortedAndStable ==
    Constructed =>
        /\ \A i \in 1..Len(sorted_lines) :
               \E j \in 1..Len(lines) : sorted_lines[i] = lines[j]
        /\ \A i, j \in 1..Len(sorted_lines) :
               i < j =>
                   /\ sorted_lines[i].line_number # sorted_lines[j].line_number
                   /\ sorted_lines[i].elapsed >= sorted_lines[j].elapsed
                   /\ sorted_lines[i].elapsed = sorted_lines[j].elapsed
                          => sorted_lines[i].line_number < sorted_lines[j].line_number
        /\ \A j \in 1..Len(lines) : sorted_lines[1].elapsed >= lines[j].elapsed
        /\ log = ExampleLog => sorted_lines[1].line_number = 3

\* A ranking with two equal gaps above a negative one.
C6_Witness ==
    /\ Constructed
    /\ \E i, j \in 1..Len(sorted_lines) :
           /\ i < j
           /\ sorted_lines[i].elapsed = sorted_lines[j].elapsed
           /\ sorted_lines[i].elapsed > 0
    /\ sorted_lines[Len(sorted_lines)].elapsed < 0

C8_ZeroSpanYieldsZeroDeltas ==
    (Constructed /\ timestamps[Len(timestamps)] - timestamps[1] = 0) =>
        \A i \in 1..Len(deltas) :
            /\ F64IsZero(deltas[i])
            /\ F64IsZero(cumulative_deltas[i])

\* C9: App::new aborts, producing no session, exactly when no input line
\* yields a timestamp (the empty input included); otherwise it returns a
\* session over all the lines, those without a timestamp included.
C9_AbortsExactlyWithoutTimestamp ==
    last_op = "App::new" =>
        /\ panicked # "none" <=> \A i \in 1..Len(log) : log[i] = None
        /\ panicked # "none" => lines = <<>> /\ sorted_lines = <<>> /\ deltas = <<>>
        /\ panicked = "none" =>
               /\ Len(lines) = Len(log)
               /\ Len(sorted_lines) = Len(log)
               /\ Len(deltas) = Len(log)
               /\ Len(cumulative_deltas) = Len(log)
               /\ interval = <<0, Len(log)>>

\* A log of several lines, none with a timestamp: App::new panicked.
C9_Witness ==
    /\ last_op = "App::new"
    /\ panicked # "none"
    /\ Len(log) > 1

\* deltas[1] + .. + deltas[i] in f64, added up from the left.
RECURSIVE SumUpTo(_, _)
SumUpTo(ds, i) == IF i = 1 THEN ds[1] ELSE F64Add(ds[i], SumUpTo(ds, i - 1))

\* elapsed[1] + .. + elapsed[i], in milliseconds.
RECURSIVE ElapsedUpTo(_, _)
ElapsedUpTo(ls, i) == IF i = 0 THEN 0 ELSE ls[i].elapsed + ElapsedUpTo(ls, i - 1)

\* timestamps[last] - timestamps[0] is not zero.
NonzeroSpan == timestamps[Len(timestamps)] - timestamps[1] # 0

\* x is 1.0 or one of the four f64 values next to it on either side.
NearOne(x) ==
    /\ x.kind = "finite"
    /\ x.sign = 1
    /\ \/ x.exp = -52 /\ x.mant[4] = 16 /\ x.mant[3] = 0 /\ x.mant[2] = 0
             /\ x.mant[1] <= 4
       \/ x.exp = -53 /\ x.mant[4] = 31 /\ x.mant[3] = LimbBase - 1
             /\ x.mant[2] = LimbBase - 1 /\ x.mant[1] >= LimbBase - 4

\* One delta and one cumulative delta per line, each cumulative delta the
\* f64 sum of the deltas up to it, and the elapsed times adding up to
\* timestamps[last] - timestamps[0].
DeltaSeriesIsPrefixSummed ==
    /\ Len(deltas) = Len(log)
    /\ Len(cumulative_deltas) = Len(log)
    /\ \A i \in 1..Len(deltas) : cumulative_deltas[i] = SumUpTo(deltas, i)
    /\ ElapsedUpTo(lines, Len(lines)) =
           timestamps[Len(timestamps)] - timestamps[1]

\* C18, as stated: the DeltaSeries has one entry per line, cumulative_deltas[i]
\* is the sum of deltas[0..=i], the elapsed times add up to timestamps[last]
\* - timestamps[0], and for a non-zero span the last cumulative value is 1.
C18_DeltasSumToOne ==
    Constructed =>
        /\ DeltaSeriesIsPrefixSummed
        /\ NonzeroSpan => cumulative_deltas[Len(cumulative_deltas)] = F64One

\* C18, amended: as stated, but for a non-zero span the last cumulative value
\* is 1 only up to the rounding of the f64 divisions and additions (which
\* stays within four units in the last place for the logs of the model);
\* it is exactly 1.0 for the example log.
C18_DeltasSumToOneRounded ==
    Constructed =>
        /\ DeltaSeriesIsPrefixSummed
        /\ NonzeroSpan => NearOne(cumulative_deltas[Len(cumulative_deltas)])
        /\ log = ExampleLog =>
               cumulative_deltas[Len(cumulative_deltas)] = F64One

\* The deltas of the log at 0, 1, 5 and 6 ms have been added up, and the
\* last cumulative value is not 1.0.
C18_Witness ==
    /\ Constructed
    /\ log = RoundingLog
    /\ NearOne(cumulative_deltas[4])
    /\ cumulative_deltas[4] # F64One

\* cumulative_deltas[i] <= cumulative_deltas[i+1] for all i.
NonDecreasing(c) == \A i \in 1..(Len(c) - 1) : F64Le(c[i], c[i + 1])

\* C19: the cumulative deltas are non-decreasing for every log App::new
\* accepts, logs whose timestamps regress included.
C19_CumulativeDeltasNonDecreasing ==
    Constructed => NonDecreasing(cumulative_deltas)

\* The same for the logs of non-zero span only, whose deltas are all finite.
C19_NonDecreasingOverNonzeroSpan ==
    (Constructed /\ NonzeroSpan) => NonDecreasing(cumulative_deltas)

----------------------------------------------------------------------------
(* Styled symbols (gaugagraph.rs).  A Styled is a grapheme and its style;  *)
(* a composer passes the style through untouched, so the model's style is  *)
(* the position of the symbol in the source, which tells two equal         *)
(* graphemes apart.                                                        *)

NBSP == "nbsp"
Newline == "\n"

\* The graphemes of the model: a letter, a wide (two-column) letter, a
\* zero-width mark, a space, the non-breaking space and the newline.
Graphemes == {"a", "W", "z", " ", NBSP, Newline}

\* symbol.width(): the display width unicode_width gives the grapheme.
Width(symbol) ==
    IF symbol = "W" THEN 2
    ELSE IF symbol \in {"z", Newline} THEN 0
    ELSE 1

\* symbol.chars().all(&char::is_whitespace): U+00A0 is whitespace too.
IsWhitespace(symbol) == symbol \in {" ", NBSP, Newline}

Styled(symbol, style) == [symbol |-> symbol, style |-> style]

\* The sum of the widths of a line's symbols.
RECURSIVE LineWidth(_)
LineWidth(line) ==
    IF line = <<>> THEN 0 ELSE Width(Head(line).symbol) + LineWidth(Tail(line))

\* Vec::truncate(n)
Truncate(line, n) == SubSeq(line, 1, Min(n, Len(line)))

----------------------------------------------------------------------------
(* WordWrapper::next_line (gaugagraph.rs) *)

\* A composer that reports no more lines as soon as the iterator yields
\* nothing, whatever is left on the line.
NoMoreLinesWhenExhausted(symbols_exhausted, line) == symbols_exhausted

\* symbols_exhausted && self.current_line.is_empty(): next_line returns None.
NoMoreLines(symbols_exhausted, line) == symbols_exhausted /\ line = <<>>

\* Whether the symbol before a newline calls for the trailing whitespace to
\* be trimmed: prev_whitespace.
TrimsAtNewline(prev_whitespace) == prev_whitespace

\* A composer that never records a word end.
MarksWordEndNever(symbol, prev_whitespace) == FALSE

\* symbol_whitespace && !prev_whitespace && symbol != NBSP: the symbol
\* starts a run of whitespace, so the previous symbol ends a word.
MarksWordEnd(symbol, prev_whitespace) ==
    IsWhitespace(symbol) /\ ~prev_whitespace /\ symbol # NBSP

\* A wrapper that carries nothing over to the next line.
StripEverything(remainder) == <<>>

\* remainder.iter().position(|c| !whitespace), then
\* next_line.extend_from_slice(&remainder[position..])
RECURSIVE StripLeadingWhitespace(_)
StripLeadingWhitespace(remainder) ==
    IF remainder = <<>> THEN <<>>
    ELSE IF IsWhitespace(Head(remainder).symbol)
    THEN StripLeadingWhitespace(Tail(remainder))
    ELSE remainder

\* A wrapper that leaves a line that is over the maximum as it is.
OverflowKeepsLine(st, max) == st

\* Lines 242-264: the line is over the maximum.  It is cut at the last word
\* end, or before the last symbol if there is none; what is cut off, less
\* its leading whitespace, goes to next_line.
Overflow(st, max) ==
    LET truncate_at ==
            IF st.symbols_to_last_word_end # 0
            THEN st.symbols_to_last_word_end
            ELSE Len(st.current_line) - 1
        truncated_width ==
            IF st.symbols_to_last_word_end # 0
            THEN st.width_to_last_word_end
            ELSE max
        remainder == SubSeq(st.current_line, truncate_at + 1, Len(st.current_line))
    IN  [st EXCEPT !.next_line = @ \o StripLeadingWhitespace(remainder),
                   !.current_line = Truncate(@, truncate_at),
                   !.current_line_width = truncated_width]

\* The for loop of next_line, from the next symbol of the iterator to the
\* break or the end of the iterator.
RECURSIVE WrapLoop(_, _)
WrapLoop(st, max) ==
    IF st.symbols = <<>> THEN st
    ELSE
    LET symbol == Head(st.symbols).symbol
        symbol_whitespace == IsWhitespace(symbol)
        taken == [st EXCEPT !.symbols = Tail(@), !.symbols_exhausted = FALSE]
    IN  IF \/ Width(symbol) > max
           \/ symbol_whitespace /\ symbol # Newline /\ st.current_line_width = 0
        THEN WrapLoop(taken, max)
        ELSE IF symbol = Newline
        THEN IF TrimsAtNewline(st.prev_whitespace)
             THEN [taken EXCEPT
                      !.current_line_width = st.width_to_last_word_end,
                      !.current_line = Truncate(@, st.symbols_to_last_word_end)]
             ELSE taken
        ELSE
    LET marked ==
            IF MarksWordEnd(symbol, st.prev_whitespace)
            THEN [taken EXCEPT
                     !.symbols_to_last_word_end = Len(st.current_line),
                     !.width_to_last_word_end = st.current_line_width]
            ELSE taken
        pushed ==
            [marked EXCEPT
                !.current_line = Append(@, Head(st.symbols)),
                !.current_line_width = @ + Width(symbol)]
    IN  IF pushed.current_line_width > max
        THEN Overflow(pushed, max)
        ELSE WrapLoop([pushed EXCEPT !.prev_whitespace = symbol_whitespace], max)

\* The locals of next_line before its loop: the lines are swapped and
\* next_line is emptied.
WrapStart ==
    [symbols |-> word_wrapper.symbols,
     current_line |-> word_wrapper.next_line,
     next_line |-> <<>>,
     current_line_width |-> LineWidth(word_wrapper.next_line),
     symbols_to_last_word_end |-> 0,
     width_to_last_word_end |-> 0,
     prev_whitespace |-> FALSE,
     symbols_exhausted |-> TRUE]

\* WordWrapper::next_line()
WordWrapperNextLine ==
    /\ IF word_wrapper.max_line_width = 0
       THEN /\ returned' = "None"
            /\ UNCHANGED <<word_wrapper, produced>>
       ELSE LET st == WrapLoop(WrapStart, word_wrapper.max_line_width)
            IN  /\ word_wrapper' =
                       [word_wrapper EXCEPT !.symbols = st.symbols,
                                            !.current_line = st.current_line,
                                            !.next_line = st.next_line]
                /\ IF NoMoreLines(st.symbols_exhausted, st.current_line)
                   THEN returned' = "None" /\ produced' = produced
                   ELSE /\ returned' = "Some"
                        /\ produced' = Append(produced,
                               [line |-> st.current_line,
                                width |-> st.current_line_width])
    /\ last_op' = "next_line"
    /\ UNCHANGED <<overflow_checks, panicked, source, wrapping, line_truncator,
                   chartVars, cursorVars, loadVars, appVars,
                   mainVars, replayVars, drawVars>>

\* The symbol streams of the model: every stream of at most MaxSymbols
\* graphemes, each styled with its position.
Streams ==
    UNION {{[i \in 1..n |-> Styled(g[i], i)] : g \in [1..n -> Graphemes]} :
               n \in 0..MaxSymbols}

\* The graphemes of "hello world", and the text area width it is wrapped to.
HelloWorld == [i \in 1..11 |-> Styled(IF i = 6 THEN " " ELSE "a", i)]
HelloWorldInput == [symbols |-> HelloWorld, max_line_width |-> 7]

\* What a word wrapper is created over: a symbol stream and the width of the
\* text area.
WrapInputs ==
    {[symbols |-> st, max_line_width |-> w] : st \in Streams, w \in 0..MaxWidth}
        \cup {HelloWorldInput}

\* WordWrapper::new(symbols, max_line_width)
NewWordWrapper(syms, width) ==
    [symbols |-> syms, max_line_width |-> width,
     current_line |-> <<>>, next_line |-> <<>>]

\* LineTruncator::new(symbols, max_line_width)
NewLineTruncator(syms, width) ==
    [symbols |-> syms, max_line_width |-> width, current_line |-> <<>>]

\* The composer that draw does not create.
NoComposer == [symbols |-> <<>>, max_line_width |-> 0, current_line |-> <<>>]

\* draw with wrapping set: WordWrapper::new over the styled graphemes.
InitWrap ==
    /\ overflow_checks = FALSE
    /\ panicked = "none"
    /\ last_op = "new"
    /\ wrapping = TRUE
    /\ \E input \in WrapInputs :
           /\ source = input.symbols
           /\ word_wrapper = NewWordWrapper(input.symbols, input.max_line_width)
    /\ line_truncator = NoComposer
    /\ produced = <<>>
    /\ returned = "Some"
    /\ NoChart
    /\ NoCursor
    /\ NoLoad
    /\ NoApp
    /\ NoMain
    /\ NoReplay
    /\ NoDraw

NextWrap == WordWrapperNextLine

SpecWrap == InitWrap /\ [][NextWrap]_vars

----------------------------------------------------------------------------
(* LineTruncator::next_line (gaugagraph.rs) *)

\* A truncator that takes every symbol.
DoesNotFitNever(current_line_width, symbol, max) == FALSE

\* current_line_width + symbol.width() > max_line_width: the symbol does not
\* fit and the rest of the line is skipped.
DoesNotFit(current_line_width, symbol, max) ==
    current_line_width + Width(symbol) > max

\* The first for loop of next_line, from the next symbol of the iterator to
\* the break or the end of the iterator.
RECURSIVE TruncateLoop(_, _)
TruncateLoop(st, max) ==
    IF st.symbols = <<>> THEN st
    ELSE
    LET symbol == Head(st.symbols).symbol
        taken == [st EXCEPT !.symbols = Tail(@), !.symbols_exhausted = FALSE]
    IN  IF Width(symbol) > max THEN TruncateLoop(taken, max)
        ELSE IF symbol = Newline THEN taken
        ELSE IF DoesNotFit(st.current_line_width, symbol, max)
        THEN [taken EXCEPT !.skip_rest = TRUE]
        ELSE TruncateLoop(
                 [taken EXCEPT !.current_line_width = @ + Width(symbol),
                               !.current_line = Append(@, Head(st.symbols))],
                 max)

\* The second for loop: the symbols are consumed up to and including the
\* next newline.
RECURSIVE SkipRest(_)
SkipRest(syms) ==
    IF syms = <<>> THEN <<>>
    ELSE IF Head(syms).symbol = Newline THEN Tail(syms)
    ELSE SkipRest(Tail(syms))

\* The locals of next_line before its loop: current_line is emptied.
TruncateStart ==
    [symbols |-> line_truncator.symbols,
     current_line |-> <<>>,
     current_line_width |-> 0,
     skip_rest |-> FALSE,
     symbols_exhausted |-> TRUE]

\* LineTruncator::next_line()
LineTruncatorNextLine ==
    /\ IF line_truncator.max_line_width = 0
       THEN /\ returned' = "None"
            /\ UNCHANGED <<line_truncator, produced>>
       ELSE LET st == TruncateLoop(TruncateStart, line_truncator.max_line_width)
            IN  /\ line_truncator' =
                       [line_truncator EXCEPT
                           !.symbols = IF st.skip_rest THEN SkipRest(st.symbols)
                                       ELSE st.symbols,
                           !.current_line = st.current_line]
                /\ IF NoMoreLines(st.symbols_exhausted, st.current_line)
                   THEN returned' = "None" /\ produced' = produced
                   ELSE /\ returned' = "Some"
                        /\ produced' = Append(produced,
                               [line |-> st.current_line,
                                width |-> st.current_line_width])
    /\ last_op' = "next_line"
    /\ UNCHANGED <<overflow_checks, panicked, source, wrapping, word_wrapper,
                   chartVars, cursorVars, loadVars, appVars,
                   mainVars, replayVars, drawVars>>

\* The graphemes of "abc\ndef", and the text area width it is truncated to.
AbcDef == [i \in 1..7 |-> Styled(IF i = 4 THEN Newline ELSE "a", i)]
AbcDefInput == [symbols |-> AbcDef, max_line_width |-> 2]

\* What draw creates a composer over.
ComposeInputs == WrapInputs \cup {AbcDefInput}

\* Gaugagraph::draw creates a WordWrapper if wrapping is set and a
\* LineTruncator otherwise, over the same styled graphemes and width.
InitCompose ==
    /\ overflow_checks = FALSE
    /\ panicked = "none"
    /\ last_op = "new"
    /\ wrapping \in BOOLEAN
    /\ \E input \in ComposeInputs :
           /\ source = input.symbols
           /\ word_wrapper =
                  IF wrapping
                  THEN NewWordWrapper(input.symbols, input.max_line_width)
                  ELSE NewWordWrapper(<<>>, 0)
           /\ line_truncator =
                  IF wrapping THEN NoComposer
                  ELSE NewLineTruncator(input.symbols, input.max_line_width)
    /\ produced = <<>>
    /\ returned = "Some"
    /\ NoChart
    /\ NoCursor
    /\ NoLoad
    /\ NoApp
    /\ NoMain
    /\ NoReplay
    /\ NoDraw

\* line_composer.next_line() on the composer that draw created.
NextCompose ==
    \/ wrapping /\ WordWrapperNextLine
    \/ ~wrapping /\ LineTruncatorNextLine

SpecCompose == InitCompose /\ [][NextCompose]_vars

\* The max width of the composer that draw created.
MaxLineWidth ==
    IF wrapping THEN word_wrapper.max_line_width
    ELSE line_truncator.max_line_width

\* The composer has reported that there are no more lines.
Finished == last_op = "next_line" /\ returned = "None"

----------------------------------------------------------------------------
(* Claims about the word wrapper, checked under SpecWrap. *)

\* The symbols of a sequence of symbols that are not whitespace.
RECURSIVE NonWhitespace(_)
NonWhitespace(line) ==
    IF line = <<>> THEN <<>>
    ELSE IF IsWhitespace(Head(line).symbol) THEN NonWhitespace(Tail(line))
    ELSE <<Head(line)>> \o NonWhitespace(Tail(line))

\* The symbols of a sequence of symbols that are no wider than max.
RECURSIVE Fitting(_, _)
Fitting(line, max) ==
    IF line = <<>> THEN <<>>
    ELSE IF Width(Head(line).symbol) > max THEN Fitting(Tail(line), max)
    ELSE <<Head(line)>> \o Fitting(Tail(line), max)

\* The lines returned so far, one after the other.
RECURSIVE Concatenated(_)
Concatenated(ls) ==
    IF ls = <<>> THEN <<>> ELSE Head(ls).line \o Concatenated(Tail(ls))

\* The source is a single token of unit-width symbols, longer than the
\* maximum width: no whitespace, so no break boundary.
UnitTokenTooLong ==
    /\ word_wrapper.max_line_width >= 1
    /\ Len(source) > word_wrapper.max_line_width
    /\ \A i \in 1..Len(source) :
           ~IsWhitespace(source[i].symbol) /\ Width(source[i].symbol) = 1

\* The number of lines of max symbols that n symbols fill or start.
LinesOf(n, max) == (n + max - 1) \div max

\* C30: a single token of unit-width symbols longer than the max width is
\* split into consecutive lines of exactly max symbols: the i-th line
\* returned is filled to the max width and starts with the first symbol
\* that did not fit on the line before it, the last line holds what is
\* left, and no symbol is dropped.
C30_LongTokenIsHardSplit ==
    (wrapping /\ UnitTokenTooLong) =>
        LET max == word_wrapper.max_line_width
            n == Len(source)
        IN  /\ Len(produced) <= LinesOf(n, max)
            /\ \A i \in 1..Len(produced) :
                   /\ produced[i].line =
                          SubSeq(source, (i - 1) * max + 1, Min(i * max, n))
                   /\ produced[i].width = Len(produced[i].line)
                   /\ i < LinesOf(n, max) => produced[i].width = max
            /\ (last_op = "next_line" /\ returned = "None") =>
                   /\ Len(produced) = LinesOf(n, max)
                   /\ Concatenated(produced) = source

\* A token one symbol longer than the max width has been split, and the
\* symbol that did not fit is a line of its own.
C30_Witness ==
    /\ wrapping
    /\ UnitTokenTooLong
    /\ word_wrapper.max_line_width > 1
    /\ Len(source) = word_wrapper.max_line_width + 1
    /\ last_op = "next_line"
    /\ returned = "None"
    /\ Len(produced) = 2
    /\ Len(produced[1].line) = word_wrapper.max_line_width
    /\ produced[2].line = <<source[Len(source)]>>

\* The source has a newline, and the symbols ahead of its first newline fit
\* on one line: the first line is ended by that newline.
Newlines == {i \in 1..Len(source) : source[i].symbol = Newline}
FirstNewline == CHOOSE i \in Newlines : \A j \in Newlines : i <= j
AheadOfNewline ==
    Fitting(SubSeq(source, 1, FirstNewline - 1), word_wrapper.max_line_width)
EndedByNewline ==
    /\ wrapping
    /\ word_wrapper.max_line_width >= 1
    /\ Newlines # {}
    /\ LineWidth(AheadOfNewline) <= word_wrapper.max_line_width
    /\ Len(produced) >= 1

\* C31: on a literal newline the word wrapper removes only trailing
\* whitespace from the current line: every non-whitespace symbol
\* accumulated on the line is in the line returned, whether the line ends
\* with an ordinary space or with U+00A0, and the newline is not returned.
C31_NewlineTrimsOnlyWhitespace ==
    EndedByNewline =>
        /\ NonWhitespace(produced[1].line) = NonWhitespace(AheadOfNewline)
        /\ \A i \in 1..Len(produced[1].line) :
               produced[1].line[i].symbol # Newline

\* C10: for any symbol stream and any max width >= 1, once next_line reports
\* no more lines, the non-whitespace symbols of the lines it returned,
\* concatenated in order, are exactly the non-whitespace symbols of the
\* source, other than those wider than the max width, each once and in
\* source order.
C10_NoContentLostOrDuplicated ==
    (last_op = "next_line" /\ returned = "None"
         /\ word_wrapper.max_line_width >= 1) =>
        NonWhitespace(Concatenated(produced))
            = NonWhitespace(Fitting(source, word_wrapper.max_line_width))

\* The source symbols strictly between two positions.
Between(p, q) == {source[j] : j \in (p + 1)..(q - 1)}

\* A line has a break boundary: an ordinary space that follows a symbol that
\* is not whitespace.
HasBoundary(line) ==
    \E i \in 2..Len(line) :
        line[i].symbol = " " /\ ~IsWhitespace(line[i - 1].symbol)

\* A returned line and the next one, where no newline of the source lies
\* between them: the first was ended by running over the max width.
EndedByOverflow(k) ==
    /\ k \in 1..(Len(produced) - 1)
    /\ produced[k].line # <<>>
    /\ produced[k + 1].line # <<>>
    /\ \A sym \in Between(produced[k].line[Len(produced[k].line)].style,
                          produced[k + 1].line[1].style) :
           sym.symbol # Newline

\* The two lines split a word: the last symbol of the first is not whitespace
\* and the next line starts with the very next symbol of the source.
SplitsWord(k) ==
    LET line == produced[k].line
        last == line[Len(line)]
    IN  /\ ~IsWhitespace(last.symbol)
        /\ produced[k + 1].line[1].style = last.style + 1

\* The lines "hello" and "world" of the example.
HelloWorldLines ==
    <<[line |-> SubSeq(HelloWorld, 1, 5), width |-> 5],
      [line |-> SubSeq(HelloWorld, 7, 11), width |-> 5]>>

\* C11: when a line is ended by running over the max width, the next line
\* starts with the first symbol of the source after it that is neither
\* whitespace nor wider than the max width, and a line that has a break
\* boundary (an ordinary space after a non-whitespace symbol) is never split
\* inside a word; "hello world" at width 7 yields "hello" and "world".
C11_BreaksAtBoundaryNeverInsideWord ==
    /\ \A k \in 1..(Len(produced) - 1) :
           EndedByOverflow(k) =>
               LET line == produced[k].line
                   following == produced[k + 1].line
               IN  /\ ~IsWhitespace(following[1].symbol)
                   /\ \A sym \in Between(line[Len(line)].style, following[1].style) :
                          \/ IsWhitespace(sym.symbol)
                          \/ Width(sym.symbol) > word_wrapper.max_line_width
                   /\ HasBoundary(line) => ~SplitsWord(k)
    /\ (source = HelloWorld /\ returned = "None") => produced = HelloWorldLines

\* "hello world" has been wrapped at width 7 to its two words: the first line
\* was ended by running over the width and the break is at the space.
C11_Witness ==
    /\ source = HelloWorld
    /\ returned = "None"
    /\ produced = HelloWorldLines
    /\ EndedByOverflow(1)
    /\ ~SplitsWord(1)

----------------------------------------------------------------------------
(* Claims about the line truncator and about both composers, checked under *)
(* SpecCompose.                                                            *)

\* The logical lines of a source: its symbols between newlines.  What
\* follows the last newline is a line if it is not empty.
RECURSIVE SplitLines(_, _)
SplitLines(syms, current) ==
    IF syms = <<>> THEN (IF current = <<>> THEN <<>> ELSE <<current>>)
    ELSE IF Head(syms).symbol = Newline
    THEN <<current>> \o SplitLines(Tail(syms), <<>>)
    ELSE SplitLines(Tail(syms), Append(current, Head(syms)))

LogicalLines(syms) == SplitLines(syms, <<>>)

\* The longest prefix of a line whose width is at most max.
LongestFittingPrefix(line, max) ==
    SubSeq(line, 1,
           MaxOf({n \in 0..Len(line) : LineWidth(SubSeq(line, 1, n)) <= max}))

\* The lines a truncating composer is to return for a source.
TruncatedLines(syms, max) ==
    LET logical == LogicalLines(syms)
    IN  [k \in 1..Len(logical) |->
            LET line == LongestFittingPrefix(Fitting(logical[k], max), max)
            IN  [line |-> line, width |-> LineWidth(line)]]

\* The lines "ab" and "de" of the example.
AbcDefLines ==
    <<[line |-> SubSeq(AbcDef, 1, 2), width |-> 2],
      [line |-> SubSeq(AbcDef, 5, 6), width |-> 2]>>

\* C12: for max width >= 1 the truncating composer returns, in order, one
\* line per newline-delimited logical line of the source: the longest prefix
\* of that logical line, less its symbols wider than the max width, that fits
\* in the max width.  The rest of the logical line and its newline are in no
\* returned line; "abc\ndef" at width 2 yields "ab" and "de".
C12_TruncatedLinesAreLongestPrefixes ==
    (~wrapping /\ MaxLineWidth >= 1) =>
        LET expected == TruncatedLines(source, MaxLineWidth)
        IN  /\ Len(produced) <= Len(expected)
            /\ produced = SubSeq(expected, 1, Len(produced))
            /\ Finished => produced = expected
            /\ (Finished /\ source = AbcDef /\ MaxLineWidth = 2) =>
                   produced = AbcDefLines

\* "abc\ndef" has been truncated at width 2 to "ab" and "de".
C12_Witness ==
    /\ ~wrapping
    /\ Finished
    /\ source = AbcDef
    /\ MaxLineWidth = 2
    /\ produced = AbcDefLines

\* The symbols the composer's iterator has yet to yield.
Remaining ==
    IF wrapping THEN word_wrapper.symbols ELSE line_truncator.symbols

\* The partial line a composer holds between two calls: what the word wrapper
\* cut off the previous line.  The truncator holds none.
Pending == IF wrapping THEN word_wrapper.next_line ELSE <<>>

C35_ReturnedWidthIsSumOfWidths ==
    \A k \in 1..Len(produced) :
        produced[k].width = LineWidth(produced[k].line)

----------------------------------------------------------------------------
(* Further claims about the chart, checked under SpecChart. *)

AbsDiff(a, b) == IF a < b THEN b - a ELSE a - b

\* zoom_in(current_line) on the current interval, then zoom_out(current_line)
\* on the outcome, gives an interval whose length is within one step size of
\* the current length.  A zoom_in that panics or changes nothing says
\* nothing.
RoundTripWithinStep(current_line) ==
    LET zoomed_in == Zoom(current_line, num_lines, interval,
                          HorizontalResolution, ScaleIn, overflow_checks)
        zoomed_out == Zoom(current_line, num_lines, zoomed_in.interval,
                           HorizontalResolution, ScaleOut, overflow_checks)
    IN  (zoomed_in.panic = "none" /\ zoomed_in.interval # interval) =>
            /\ zoomed_out.panic = "none"
            /\ AbsDiff(IntervalLength(zoomed_out.interval),
                       IntervalLength(interval))
                   <= IntervalLength(interval) \div HorizontalResolution

\* C15: for every interval reachable by zooming and every focus line inside
\* it, when zoom_in changes the interval, a following zoom_out with the same
\* focus line returns an interval whose length differs from the original
\* length by at most original length / horizontal_resolution.
C15_ZoomInThenOutRestoresLength ==
    panicked = "none" =>
        \A current_line \in interval[1]..(interval[2] - 1) :
            RoundTripWithinStep(current_line)

\* The scale factor 0.5 of the tests of zoom.
ScaleHalf == [num |-> 1, den |-> 2]

\* The interval the recentering formula gives, in integers: the offsets of
\* the focus line from the edges, counted in steps of the current step size
\* cs and laid out again in steps of the target step size ts.
RecenteredInterval(focus, iv, target) ==
    LET cs == IntervalLength(iv) \div HorizontalResolution
        ts == target \div HorizontalResolution
    IN  <<focus - ts * ((focus - iv[1]) \div cs),
          focus + ts * ((iv[2] - focus) \div cs)>>

\* A zoom of iv by scale at focus that is no no-op (the target length is at
\* least the resolution), is not clamped (it is at most n) and is not
\* snapped (the recentered edges are within 0..n) returns the recentered
\* interval.
ZoomRecenters(focus, n, iv, scale, checks) ==
    LET target == (IntervalLength(iv) * scale.num) \div scale.den
        recentered == RecenteredInterval(focus, iv, target)
    IN  (/\ target >= HorizontalResolution
         /\ target <= n
         /\ IntervalLength(iv) >= HorizontalResolution
         /\ recentered[1] >= 0
         /\ recentered[2] <= n)
            => Zoom(focus, n, iv, HorizontalResolution, scale, checks)
                   = ZoomOk(recentered)

\* C23: a zoom that is neither a no-op nor clamped nor snapped returns
\* (focus - ts * ((focus - lower) / cs), focus + ts * ((upper - focus) / cs))
\* with cs = current_length / horizontal_resolution, ts = target_length /
\* horizontal_resolution and target_length = trunc(current_length * scale),
\* for every reachable interval, every focus line within it and the scales
\* 1/3, 3 and 0.5; N = 200, (0,200), focus 10, scale 0.5 gives (5,105) and
\* N = 2100, (0,2100), focus 280, scale 0.5 gives (150,1140).
C23_ZoomRecentersByStepCounts ==
    /\ panicked = "none" =>
           \A scale \in {ScaleIn, ScaleOut, ScaleHalf} :
               \A focus \in interval[1]..Min(interval[2], num_lines - 1) :
                   ZoomRecenters(focus, num_lines, interval, scale,
                                 overflow_checks)
    /\ Zoom(10, 200, <<0, 200>>, HorizontalResolution, ScaleHalf,
            overflow_checks) = ZoomOk(<<5, 105>>)
    /\ Zoom(280, 2100, <<0, 2100>>, HorizontalResolution, ScaleHalf,
            overflow_checks) = ZoomOk(<<150, 1140>>)

\* A zoom_in has recentered the interval, which touches neither end of the
\* log.
C23_Witness ==
    /\ last_op = "zoom_in"
    /\ panicked = "none"
    /\ interval[1] > 0
    /\ interval[2] < num_lines
    /\ IntervalLength(interval) >= HorizontalResolution

\* C24: a zoom_in whose target length trunc(current_length / zoom_factor)
\* is below horizontal_resolution returns the interval it was given and does
\* not fail, whatever the focus line, and the step leaves the number of
\* lines as it is; every log shorter than the resolution is such a case, and
\* so is the interval (0,199) of a 200-line log zoomed by 0.5.
C24_ZoomInBelowResolutionIsNoOp ==
    /\ [](/\ (panicked = "none"
               /\ IntervalLength(interval) \div ZoomFactor < HorizontalResolution)
              => \A focus \in 0..(num_lines - 1) :
                     Zoom(focus, num_lines, interval, HorizontalResolution,
                          ScaleIn, overflow_checks) = ZoomOk(interval)
          /\ Zoom(10, 200, <<0, 199>>, HorizontalResolution, ScaleHalf,
                  overflow_checks) = ZoomOk(<<0, 199>>))
    /\ [][(last_op' = "zoom_in"
             /\ IntervalLength(interval) \div ZoomFactor < HorizontalResolution)
            => /\ interval' = interval
               /\ panicked' = "none"
               /\ num_lines' = num_lines]_vars

\* A zoom_in on a log shorter than the resolution has returned.
C24_Witness ==
    /\ last_op = "zoom_in"
    /\ panicked = "none"
    /\ num_lines > 1
    /\ num_lines < HorizontalResolution
    /\ interval = <<0, num_lines>>

\* zoom_out(focus), repeated at most steps times from iv, arrives at the
\* whole log without a panic.
RECURSIVE ZoomOutArrives(_, _, _, _, _)
ZoomOutArrives(focus, n, iv, checks, steps) ==
    \/ iv = <<0, n>>
    \/ /\ steps > 0
       /\ LET r == Zoom(focus, n, iv, HorizontalResolution, ScaleOut, checks)
          IN  /\ r.panic = "none"
              /\ ZoomOutArrives(focus, n, r.interval, checks, steps - 1)

\* C25: a zoom_out whose target length trunc(current_length * zoom_factor)
\* exceeds N returns (0, N), from every reachable interval and for every
\* focus line within it; zoom_out repeated with such a focus line arrives
\* at (0, N) after finitely many steps (at most MaxZoomOuts of them) and a
\* zoom_out of (0, N) returns (0, N).
C25_ZoomOutReachesWholeLog ==
    panicked = "none" =>
        \A focus \in interval[1]..Min(interval[2], num_lines - 1) :
            /\ IntervalLength(interval) * ZoomFactor > num_lines
                   => Zoom(focus, num_lines, interval, HorizontalResolution,
                           ScaleOut, overflow_checks) = ZoomOk(<<0, num_lines>>)
            /\ ZoomOutArrives(focus, num_lines, interval, overflow_checks,
                              MaxZoomOuts)
            /\ Zoom(focus, num_lines, <<0, num_lines>>, HorizontalResolution,
                    ScaleOut, overflow_checks) = ZoomOk(<<0, num_lines>>)

\* A zoom_out of iv at focus that goes on to recenter (its target length L
\* is at least the resolution and at most n) returns (0, L) if the
\* recentered lower edge is below 0, and (n - L, n) if it is not but the
\* recentered upper edge is above n; what it returns is within 0..n.
ZoomOutSnaps(focus, n, iv, checks) ==
    LET target == IntervalLength(iv) * ZoomFactor
        recentered == RecenteredInterval(focus, iv, target)
        r == Zoom(focus, n, iv, HorizontalResolution, ScaleOut, checks)
    IN  (/\ target >= HorizontalResolution
         /\ target <= n
         /\ IntervalLength(iv) >= HorizontalResolution)
            => /\ r.panic = "none"
               /\ recentered[1] < 0 => r.interval = <<0, target>>
               /\ (recentered[1] >= 0 /\ recentered[2] > n)
                      => r.interval = <<n - target, n>>
               /\ 0 <= r.interval[1] /\ r.interval[2] <= n

\* C26: when the recentering of a zoom_out would put the lower edge below 0
\* or the upper edge above N, the result is (0, L) or (N - L, N) with L the
\* target length, within [0, N]; either edge is tested, so no interval is
\* left reaching beyond N.  For every reachable interval and every focus
\* line within it.
C26_ZoomOutSnapsToViolatedEdge ==
    panicked = "none" =>
        \A focus \in interval[1]..Min(interval[2], num_lines - 1) :
            ZoomOutSnaps(focus, num_lines, interval, overflow_checks)

\* A zoom_out has been snapped against the start of the log: the interval
\* starts at 0, is three resolutions long and ends before the last line.
C26_Witness ==
    /\ last_op = "zoom_out"
    /\ panicked = "none"
    /\ interval[1] = 0
    /\ interval[2] < num_lines
    /\ IntervalLength(interval) = ZoomFactor * HorizontalResolution

\* update(focus) on iv returns an interval of the same length within 0..n,
\* and returns (0, n) for (0, n).
UpdateTranslates(focus, n, iv) ==
    LET new == UpdateInterval(focus, n, iv)
    IN  /\ IntervalLength(new) = IntervalLength(iv)
        /\ 0 <= new[1] /\ new[2] <= n
        /\ iv = <<0, n>> => new = iv

\* C27: update only translates the interval: from every reachable state and
\* for every focus line in [0, N) the interval it returns is as long as the
\* one before and within [0, N], and (0, N) is returned unchanged; an update
\* step changes the interval in this way and nothing else of the chart.
C27_UpdateOnlyTranslates ==
    /\ [](panicked = "none" =>
              \A focus \in 0..(num_lines - 1) :
                  UpdateTranslates(focus, num_lines, interval))
    /\ [][last_op' = "update" =>
              /\ IntervalLength(interval') = IntervalLength(interval)
              /\ 0 <= interval'[1] /\ interval'[2] <= num_lines
              /\ interval = <<0, num_lines>> => interval' = interval
              /\ num_lines' = num_lines
              /\ panicked' = "none"]_vars

\* An update has slid an interval shorter than the resolution, which no
\* zoom leaves there, to the end of the log.
C27_Witness ==
    /\ last_op = "update"
    /\ panicked = "none"
    /\ interval[1] > 0
    /\ interval[2] = num_lines
    /\ IntervalLength(interval) < HorizontalResolution

MaxInt(a, b) == IF a > b THEN a ELSE b

\* focus is at least margin away from either edge of iv, unless iv is flush
\* with that end of the log.
KeepsMargin(focus, margin, n, iv) ==
    /\ iv[1] <= MaxInt(0, focus - margin)
    /\ iv[2] >= Min(n, focus + margin)

\* update(focus) on an iv other than (0, n), with margin the eighth of its
\* length: the interval returned keeps the margin, and it is iv if iv kept
\* the margin.
UpdateRestoresMargin(focus, n, iv) ==
    LET margin == IntervalLength(iv) \div 8
        new == UpdateInterval(focus, n, iv)
    IN  iv # <<0, n>> =>
            /\ KeepsMargin(focus, margin, n, new)
            /\ KeepsMargin(focus, margin, n, iv) => new = iv

\* C28: after update(focus) on an interval that is not the whole log, with
\* margin = interval_length / 8 taken before the call, lower <= max(0, focus
\* - margin) and upper >= min(N, focus + margin); if that held before the
\* call, the interval is unchanged.  From every reachable state and for
\* every focus line in [0, N).
C28_UpdateRestoresMargin ==
    panicked = "none" =>
        \A focus \in 0..(num_lines - 1) :
            UpdateRestoresMargin(focus, num_lines, interval)

\* An update has slid an interval shorter than the resolution, which no
\* zoom leaves there, to the start of a log it does not span.
C28_Witness ==
    /\ last_op = "update"
    /\ panicked = "none"
    /\ interval[1] = 0
    /\ interval[2] < num_lines
    /\ IntervalLength(interval) < HorizontalResolution

----------------------------------------------------------------------------
(* ScrollState and the key handlers of App (app.rs) *)

\* Cell::next
NextCell(cell) ==
    IF cell = "Log" THEN "Chart" ELSE IF cell = "Chart" THEN "List" ELSE "Log"

\* ScrollState::new(total_lines)
NewScrollState(total_lines) ==
    [total_lines |-> total_lines, current_line |-> 0, horizontal_scroll |-> 0]

\* ScrollState::right(n).  The sum stays far below 2^64 in a session of
\* MaxKeys key events.
ScrollRight(st, n) == [st EXCEPT !.horizontal_scroll = @ + n]

\* ScrollState::left(n)
ScrollLeft(st, n) == [st EXCEPT !.horizontal_scroll = @ - Min(n, @)]

\* ScrollState::up(n)
ScrollUp(st, n) == [st EXCEPT !.current_line = @ - Min(n, @)]

\* A scroll down that is not held back at the last line.
RoomBelowUnbounded(st, n) == n

\* n.min(self.total_lines - 1 - self.current_line), where the subtraction
\* does not overflow.
RoomBelow(st, n) == Min(n, st.total_lines - 1 - st.current_line)

\* ScrollState::down(n).  total_lines - 1 - current_line overflows if the
\* current line is beyond the last line: a panic under overflow checks, and
\* otherwise a wrapped difference of nearly 2^64, of which n is the minimum.
ScrollDown(st, n, checks) ==
    IF st.current_line + 1 > st.total_lines
    THEN IF checks
         THEN [panic |-> "attempt to subtract with overflow", state |-> st]
         ELSE [panic |-> "none",
               state |-> [st EXCEPT !.current_line = @ + n]]
    ELSE [panic |-> "none",
          state |-> [st EXCEPT !.current_line = @ + RoomBelow(st, n)]]

\* App::lines_per_pixel
LinesPerPixel == IntervalLength(interval) \div HorizontalResolution

\* A key event is handled: the session has not panicked and is within its
\* MaxKeys events.
Key(name) ==
    /\ panicked = "none"
    /\ keys < MaxKeys
    /\ keys' = keys + 1
    /\ last_op' = name
    /\ UNCHANGED <<overflow_checks, num_lines, cursorVars, loadVars, wrapVars,
                   replayVars, drawVars>>
    /\ main_loop = "idle" => UNCHANGED mainVars

\* What a handler does to the state it works on.
LogScrolls(st) ==
    /\ log_scroll_state' = st
    /\ UNCHANGED <<diff_scroll_state, interval, panicked, active>>

LogScrollsDown(n) ==
    LET r == ScrollDown(log_scroll_state, n, overflow_checks)
    IN  /\ log_scroll_state' = r.state
        /\ panicked' = r.panic
        /\ UNCHANGED <<diff_scroll_state, interval, active>>

DiffScrolls(st) ==
    /\ diff_scroll_state' = st
    /\ UNCHANGED <<log_scroll_state, interval, panicked, active>>

DiffScrollsDown(n) ==
    LET r == ScrollDown(diff_scroll_state, n, overflow_checks)
    IN  /\ diff_scroll_state' = r.state
        /\ panicked' = r.panic
        /\ UNCHANGED <<log_scroll_state, interval, active>>

ChartZooms(scale) ==
    LET r == Zoom(log_scroll_state.current_line, num_lines, interval,
                  HorizontalResolution, scale, overflow_checks)
    IN  /\ interval' = r.interval
        /\ panicked' = r.panic
        /\ UNCHANGED <<log_scroll_state, diff_scroll_state, active>>

NothingChanges ==
    UNCHANGED <<log_scroll_state, diff_scroll_state, interval, panicked, active>>

\* App::on_up
OnUp ==
    /\ Key("on_up")
    /\ CASE active = "Log" -> LogScrolls(ScrollUp(log_scroll_state, 1))
         [] active = "Chart" -> ChartZooms(ScaleIn)
         [] active = "List" -> DiffScrolls(ScrollUp(diff_scroll_state, 1))

\* App::on_down
OnDown ==
    /\ Key("on_down")
    /\ CASE active = "Log" -> LogScrollsDown(1)
         [] active = "Chart" -> ChartZooms(ScaleOut)
         [] active = "List" -> DiffScrollsDown(1)

\* App::on_page_up
OnPageUp ==
    /\ Key("on_page_up")
    /\ CASE active = "Log" -> LogScrolls(ScrollUp(log_scroll_state, 15))
         [] active = "Chart" -> NothingChanges
         [] active = "List" -> DiffScrolls(ScrollUp(diff_scroll_state, 15))

\* App::on_page_down
OnPageDown ==
    /\ Key("on_page_down")
    /\ CASE active = "Log" -> LogScrollsDown(15)
         [] active = "Chart" -> NothingChanges
         [] active = "List" -> DiffScrollsDown(15)

\* App::on_right
OnRight ==
    /\ Key("on_right")
    /\ CASE active = "Log" -> LogScrolls(ScrollRight(log_scroll_state, 3))
         [] active = "Chart" -> LogScrollsDown(1 * LinesPerPixel)
         [] active = "List" -> DiffScrolls(ScrollRight(diff_scroll_state, 3))

\* App::on_left
OnLeft ==
    /\ Key("on_left")
    /\ CASE active = "Log" -> LogScrolls(ScrollLeft(log_scroll_state, 3))
         [] active = "Chart" ->
                LogScrolls(ScrollUp(log_scroll_state, 1 * LinesPerPixel))
         [] active = "List" -> DiffScrolls(ScrollLeft(diff_scroll_state, 3))

\* App::on_home
OnHome ==
    /\ Key("on_home")
    /\ CASE active = "Log" -> LogScrolls(ScrollLeft(log_scroll_state, 1000))
         [] active = "Chart" ->
                LogScrolls(ScrollUp(log_scroll_state, 15 * LinesPerPixel))
         [] active = "List" -> DiffScrolls(ScrollLeft(diff_scroll_state, 1000))

\* App::on_end
OnEnd ==
    /\ Key("on_end")
    /\ CASE active = "Log" -> LogScrolls(ScrollRight(log_scroll_state, 1000))
         [] active = "Chart" -> LogScrollsDown(15 * LinesPerPixel)
         [] active = "List" -> DiffScrolls(ScrollRight(diff_scroll_state, 1000))

\* The characters on_char tells apart: '\t' and '\n'.
Tab == 9
Enter == 10

\* The characters of the model: tab, enter and 'x'.
Chars == {Tab, Enter, 120}

\* if target_line == 0 { 0 } else { target_line - 1 }
JumpLine(target_line) == IF target_line = 0 THEN 0 ELSE target_line - 1

\* App::on_char(c).  sorted_lines[selected_line] panics if the selection is
\* beyond the last ranked line.
OnChar(c) ==
    /\ Key(IF c = Tab THEN "on_char(tab)"
           ELSE IF c = Enter THEN "on_char(enter)" ELSE "on_char")
    /\ IF c = Tab
       THEN /\ active' = NextCell(active)
            /\ UNCHANGED <<log_scroll_state, diff_scroll_state, interval, panicked>>
       ELSE IF active = "List" /\ c = Enter
       THEN LET selected_line == diff_scroll_state.current_line
            IN  IF selected_line + 1 > Len(sorted_lines)
                THEN /\ panicked' = "index out of bounds"
                     /\ UNCHANGED <<log_scroll_state, diff_scroll_state,
                                    interval, active>>
                ELSE LogScrolls(
                         [log_scroll_state EXCEPT !.current_line =
                             JumpLine(sorted_lines[selected_line + 1].line_number)])
       ELSE NothingChanges

\* An escape that resets the zoom in whatever panel is active.
ResetsZoomAlways(cell) == TRUE

\* The match of App::on_esc: Cell::Chart => self.chart_state.reset_zoom(),
\* and nothing for Cell::Log and Cell::List.
ResetsZoom(cell) == cell = "Chart"

\* App::on_esc
OnEsc ==
    /\ Key("on_esc")
    /\ IF ResetsZoom(active)
       THEN /\ interval' = ResetInterval(num_lines)
            /\ UNCHANGED <<log_scroll_state, diff_scroll_state, panicked, active>>
       ELSE NothingChanges

\* A log long enough to zoom into: as many lines as the chart shows at the
\* first zoom level, with a timestamp on every line that moves on every
\* second line.
LongLog == [i \in 1..(ZoomFactor * HorizontalResolution) |-> Some(i \div 2)]

\* The logs a session of the model is started on: one line, the example
\* and the long log.
AppLogs == {<<Some(0)>>, ExampleLog, LongLog}

\* App::new(log), under either build.
InitApp ==
    /\ overflow_checks \in BOOLEAN
    /\ panicked = "none"
    /\ last_op = "App::new"
    /\ log \in AppLogs
    /\ LET new_app == NewApp(log)
       IN  /\ timestamps = new_app.timestamps
           /\ lines = new_app.lines
           /\ sorted_lines = new_app.sorted_lines
           /\ deltas = new_app.deltas
           /\ cumulative_deltas = new_app.cumulative_deltas
    /\ num_lines = Len(log)
    /\ interval = <<0, Len(log)>>
    /\ active = "Log"
    /\ log_scroll_state = NewScrollState(Len(log))
    /\ diff_scroll_state = NewScrollState(Len(log))
    /\ keys = 0
    /\ NoCursor
    /\ NoWrap
    /\ NoMain
    /\ NoReplay
    /\ NoDraw

NextApp ==
    \/ OnUp
    \/ OnDown
    \/ OnPageUp
    \/ OnPageDown
    \/ OnRight
    \/ OnLeft
    \/ OnHome
    \/ OnEnd
    \/ \E c \in Chars : OnChar(c)
    \/ OnEsc

SpecApp == InitApp /\ [][NextApp]_vars

\* ---------------------------------------------------------------------
\* C16: Escape while the Chart panel is active sets the viewport interval
\* to exactly (0, N), whatever interval the zooms before it left; Escape
\* while the Log or the List panel is active leaves the interval as it is.
C16_EscapeResetsOnlyInChart ==
    [][(last_op' = "on_esc" /\ keys' = keys + 1) =>
           IF active = "Chart"
           THEN interval' = <<0, num_lines>>
           ELSE interval' = interval]_vars

\* An escape in the Chart panel has been handled in a session on a log long
\* enough to zoom into, and the interval is the whole log.
C16_Witness ==
    /\ last_op = "on_esc"
    /\ active = "Chart"
    /\ num_lines >= ZoomFactor * HorizontalResolution
    /\ interval = <<0, num_lines>>

\* ---------------------------------------------------------------------
\* C17: after any sequence of key events in any panel, the current line of
\* the log pane and the current line of the list pane are in 0..N-1 and no
\* horizontal scroll is below 0; no scroll and no jump fails: the only key
\* event that can end a session is a zoom, Up or Down in the Chart panel.
C17_ScrollPositionsStayInRange ==
    /\ log_scroll_state.current_line \in 0..(num_lines - 1)
    /\ diff_scroll_state.current_line \in 0..(num_lines - 1)
    /\ log_scroll_state.horizontal_scroll >= 0
    /\ diff_scroll_state.horizontal_scroll >= 0
    /\ panicked # "none" => last_op \in {"on_up", "on_down"} /\ active = "Chart"

\* A page down in the Log panel of a log of fewer than 15 lines has been
\* held back at the last line.
C17_Witness ==
    /\ last_op = "on_page_down"
    /\ active = "Log"
    /\ num_lines \in 2..14
    /\ log_scroll_state.current_line = num_lines - 1
    /\ panicked = "none"

\* ---------------------------------------------------------------------
\* C20: Enter while the List panel is active moves the current line of the
\* log pane to exactly the original line index of the selected entry of
\* the ranking, and leaves the selection of the list pane as it is.
C20_EnterJumpsToSelectedLine ==
    [][(last_op' = "on_char(enter)" /\ keys' = keys + 1 /\ active = "List"
            /\ panicked' = "none") =>
           /\ log_scroll_state'.current_line =
                  sorted_lines[diff_scroll_state.current_line + 1].line_number
           /\ diff_scroll_state' = diff_scroll_state]_vars

\* ---------------------------------------------------------------------
(* ChartState::section (chart.rs), which draw calls for every frame *)

\* i as f64, for a line index i.
UsizeAsF64(i) == F64Div(i, 1)

\* .enumerate().skip(lower).step_by(step).take(horizontal_resolution): the
\* indices the iterator yields over a vector of len entries.
SampledIndices(len, lower, step, horizontal_resolution) ==
    LET count ==
            Cardinality({k \in 0..(horizontal_resolution - 1) :
                             lower + k * step < len})
    IN  [k \in 1..count |-> lower + (k - 1) * step]

\* ChartState::section(): step_by panics on a step of 0, and points[0] on
\* an empty vector of points.
Section(cumulative, iv, horizontal_resolution) ==
    LET step == IntervalLength(iv) \div horizontal_resolution
        indices ==
            SampledIndices(Len(cumulative), iv[1], step, horizontal_resolution)
        points ==
            [k \in 1..Len(indices) |->
                <<UsizeAsF64(indices[k]), cumulative[indices[k] + 1]>>]
        none == [points |-> <<>>, x_bounds |-> <<>>, y_bounds |-> <<>>]
    IN  IF step = 0
        THEN [panic |-> "assertion failed: step != 0", section |-> none]
        ELSE IF Len(indices) = 0
        THEN [panic |-> "index out of bounds", section |-> none]
        ELSE [panic |-> "none",
              section |->
                  [points |-> points,
                   x_bounds |-> <<points[1][1], points[Len(points)][1]>>,
                   y_bounds |-> <<points[1][2], points[Len(points)][2]>>]]

\* What section() is to return for the interval iv: horizontal_resolution
\* points, the k-th at line lower + k * stride, a line of the interval.
SectionSamplesInterval(cumulative, iv, horizontal_resolution) ==
    LET s == Section(cumulative, iv, horizontal_resolution)
        stride == IntervalLength(iv) \div horizontal_resolution
    IN  /\ s.panic = "none"
        /\ Len(s.section.points) = horizontal_resolution
        /\ \A k \in 0..(horizontal_resolution - 1) :
               LET index == iv[1] + k * stride
               IN  /\ index \in iv[1]..(iv[2] - 1)
                   /\ s.section.points[k + 1] =
                          <<UsizeAsF64(index), cumulative[index + 1]>>

\* C29: in every reachable state of a session, logs of fewer lines than
\* horizontal_resolution included, section() succeeds and returns exactly
\* horizontal_resolution points, the k-th being (lower + k * stride,
\* cumulative_deltas[lower + k * stride]) with stride = interval_length /
\* horizontal_resolution, every sampled index in [lower, upper).
C29_SectionReturnsResolutionPoints ==
    panicked = "none" =>
        SectionSamplesInterval(cumulative_deltas, interval, HorizontalResolution)

\* ---------------------------------------------------------------------
(* The action log (replay.rs) *)

\* crossterm's KeyCode: Char(c) with the code point c, or a key without data.
KeyChar(c) == [code |-> "Char", c |-> c]
KeyOf(code) == [code |-> code, c |-> 0]

\* 'q', which handle_key takes for the request to quit.
QuitChar == 113

\* The keys handle_key has a branch for, the keys of the replay vocabulary.
NamedKeys ==
    {"Down", "Up", "PageDown", "PageUp", "Home", "End", "Left", "Right",
     "Tab", "Enter", "Esc"}
KeyCodes == {KeyChar(c) : c \in {QuitChar, 120}} \cup {KeyOf(k) : k \in NamedKeys}

\* The variants of enum KeyData other than Char.
KeyDataUnits ==
    {"Down", "Up", "PageDown", "PageUp", "Home", "End", "Left", "Right",
     "Tab", "Enter"}

\* fn to_serialisable(key): the KeyData of a key code, or the panic of the
\* last arm of the match.
ToSerialisable(key) ==
    IF key.code = "Char"
    THEN [panic |-> "none", data |-> [variant |-> "Char", c |-> key.c]]
    ELSE IF key.code \in KeyDataUnits
    THEN [panic |-> "none", data |-> [variant |-> key.code, c |-> 0]]
    ELSE [panic |-> "Unsupported key", data |-> [variant |-> "none", c |-> 0]]

\* fn from_serialisable(key)
FromSerialisable(data) ==
    IF data.variant = "Char" THEN KeyChar(data.c) ELSE KeyOf(data.variant)

\* What #[derive(Serialize)] and serde_json write for a KeyData: the name of
\* a unit variant as a JSON string, and Char(c) as the object {"Char": "c"}.
KeyDataToJson(data) ==
    IF data.variant = "Char"
    THEN [json |-> "object", text |-> "Char", value |-> data.c]
    ELSE [json |-> "string", text |-> data.variant, value |-> 0]

\* What #[derive(Deserialize)] and serde_json read from a JSON value: a
\* KeyData, or an error for an object or a string that names no variant.
KeyDataFromJson(j) ==
    IF j.json = "object" /\ j.text = "Char"
    THEN [error |-> FALSE, data |-> [variant |-> "Char", c |-> j.value]]
    ELSE IF j.json = "string" /\ j.text \in KeyDataUnits
    THEN [error |-> FALSE, data |-> [variant |-> j.text, c |-> 0]]
    ELSE [error |-> TRUE, data |-> [variant |-> "none", c |-> 0]]

\* A key code is recorded, as the main loop records the code of every key
\* event it receives.
Record(key) ==
    /\ panicked = "none"
    /\ ~action_log.written
    /\ Len(actions) < MaxActions
    /\ actions' = Append(actions, key)
    /\ last_op' = "record"
    /\ UNCHANGED <<overflow_checks, panicked, chartVars, cursorVars, loadVars,
                   wrapVars, appVars, worker, channel, main_loop,
                   write_actions, sent, applied, replayVars, drawVars>>

\* fn write_action_log(file, keys): the file is created, then every key is
\* mapped and the vector is written as a JSON array.
WriteActionLog ==
    /\ panicked = "none"
    /\ ~action_log.written
    /\ LET serialisable == [i \in 1..Len(actions) |-> ToSerialisable(actions[i])]
           failed == {i \in 1..Len(actions) : serialisable[i].panic # "none"}
       IN  IF failed # {}
           THEN /\ panicked' = "Unsupported key"
                /\ action_log' = [written |-> TRUE, json |-> <<>>]
           ELSE /\ panicked' = "none"
                /\ action_log' =
                       [written |-> TRUE,
                        json |-> [i \in 1..Len(actions) |->
                                     KeyDataToJson(serialisable[i].data)]]
    /\ last_op' = "write_action_log"
    /\ UNCHANGED <<overflow_checks, chartVars, cursorVars, loadVars, wrapVars,
                   appVars, mainVars, replayed, drawVars>>

\* fn read_action_log(file), of a file that write_action_log wrote.
ReadActionLog ==
    /\ panicked = "none"
    /\ action_log.written
    /\ last_op = "write_action_log"
    /\ LET deserialized ==
               [i \in 1..Len(action_log.json) |-> KeyDataFromJson(action_log.json[i])]
       IN  /\ \A i \in 1..Len(deserialized) : ~deserialized[i].error
           /\ replayed' =
                  [i \in 1..Len(deserialized) |->
                      FromSerialisable(deserialized[i].data)]
    /\ last_op' = "read_action_log"
    /\ UNCHANGED <<overflow_checks, panicked, chartVars, cursorVars, loadVars,
                   wrapVars, appVars, mainVars, action_log,
                   drawVars>>

\* A session whose keys are to be recorded, before its first key.
InitReplay ==
    /\ overflow_checks = FALSE
    /\ panicked = "none"
    /\ last_op = "start"
    /\ NoChart
    /\ NoCursor
    /\ NoLoad
    /\ NoWrap
    /\ NoApp
    /\ NoMain
    /\ NoReplay
    /\ NoDraw

NextReplay ==
    \/ \E key \in KeyCodes : Record(key)
    \/ WriteActionLog
    \/ ReadActionLog

SpecReplay == InitReplay /\ [][NextReplay]_vars

\* C21: every action of the replay vocabulary {character, Up, Down, PageUp,
\* PageDown, Home, End, Left, Right, Tab, Enter, Escape} can be written to
\* the action log and read back as the same action: writing a recorded
\* sequence over the vocabulary never fails, and reading it back gives the
\* recorded sequence, in the same order.
C21_ActionLogRoundTrips ==
    /\ last_op = "write_action_log" => panicked = "none"
    /\ last_op = "read_action_log" => replayed = actions

\* ---------------------------------------------------------------------
(* The input worker, the channel and the main loop (main.rs) *)

\* Event::Input(key) and Event::Tick
Input(key) == [event |-> "Input", key |-> key]
Tick == [event |-> "Tick", key |-> KeyOf("none")]

\* The key events of a session: 'q' and another character, keys that move
\* the current line, change the panel, zoom and reset the zoom, and a key
\* handle_key has no branch for.
SessionKeys ==
    {KeyChar(QuitChar), KeyChar(120), KeyOf("Down"), KeyOf("Up"), KeyOf("Tab"),
     KeyOf("Esc"), KeyOf("Backspace")}

\* A receive that takes the event sent last.
RecvNewest(ch) == [event |-> ch[Len(ch)], rest |-> SubSeq(ch, 1, Len(ch) - 1)]

\* rx.recv() on a channel that holds an event: the event sent first, and the
\* events that stay in the channel.
Recv(ch) == [event |-> Head(ch), rest |-> Tail(ch)]

\* The worker thread: event::poll returned true and event::read a key event,
\* which is sent as Event::Input; the tick of line 99 is still to be sent.
WorkerSendsInput(key) ==
    /\ panicked = "none"
    /\ worker = "poll"
    /\ Len(sent) < MaxSent
    /\ Len(channel) < MaxChannel
    /\ channel' = Append(channel, Input(key))
    /\ sent' = Append(sent, key)
    /\ worker' = "tick"
    /\ last_op' = "send(Input)"
    /\ UNCHANGED <<overflow_checks, panicked, chartVars, cursorVars, loadVars,
                   wrapVars, appVars, main_loop, write_actions, actions,
                   applied, replayVars, drawVars>>

\* The worker thread sends Event::Tick: after an Input, after a poll that
\* timed out, or after an event that is not a key event.
WorkerSendsTick ==
    /\ panicked = "none"
    /\ worker \in {"poll", "tick"}
    /\ Len(channel) < MaxChannel
    /\ channel' = Append(channel, Tick)
    /\ worker' = "poll"
    /\ last_op' = "send(Tick)"
    /\ UNCHANGED <<overflow_checks, panicked, chartVars, cursorVars, loadVars,
                   wrapVars, appVars, main_loop, write_actions, actions, sent,
                   applied, replayVars, drawVars>>

\* draw(&mut terminal, &mut app): the frame is made from the state, which
\* it leaves alone; draw_chart calls section(), which may panic.
MainDraws ==
    /\ panicked = "none"
    /\ main_loop = "draw"
    /\ LET s == Section(cumulative_deltas, interval, HorizontalResolution)
       IN  IF s.panic # "none"
           THEN panicked' = s.panic /\ main_loop' = main_loop
           ELSE panicked' = "none" /\ main_loop' = "recv"
    /\ last_op' = "draw"
    /\ UNCHANGED <<overflow_checks, chartVars, cursorVars, loadVars, wrapVars,
                   appVars, worker, channel, write_actions, actions, sent,
                   applied, replayVars, drawVars>>

\* match rx.recv()? { .. _ => {} }: a Tick is received and nothing is done.
MainReceivesTick ==
    /\ panicked = "none"
    /\ main_loop = "recv"
    /\ channel # <<>>
    /\ Recv(channel).event.event = "Tick"
    /\ channel' = Recv(channel).rest
    /\ main_loop' = "draw"
    /\ last_op' = "recv(Tick)"
    /\ UNCHANGED <<overflow_checks, panicked, chartVars, cursorVars, loadVars,
                   wrapVars, appVars, worker, write_actions, actions, sent,
                   applied, replayVars, drawVars>>

\* fn handle_key(key, app), for a key other than 'q': the handler of the
\* key.  App::on_tab and App::on_enter are the tab and enter of on_char,
\* App::on_escape is on_esc.
HandleKey(key) ==
    IF key.code = "Char" THEN OnChar(key.c)
    ELSE IF key.code = "Down" THEN OnDown
    ELSE IF key.code = "Up" THEN OnUp
    ELSE IF key.code = "PageDown" THEN OnPageDown
    ELSE IF key.code = "PageUp" THEN OnPageUp
    ELSE IF key.code = "Home" THEN OnHome
    ELSE IF key.code = "End" THEN OnEnd
    ELSE IF key.code = "Left" THEN OnLeft
    ELSE IF key.code = "Right" THEN OnRight
    ELSE IF key.code = "Tab" THEN OnChar(Tab)
    ELSE IF key.code = "Enter" THEN OnChar(Enter)
    ELSE IF key.code = "Esc" THEN OnEsc
    ELSE Key("handle_key") /\ NothingChanges

\* Event::Input(key) is received: its code is recorded if the actions are
\* to be written, and handle_key is called with it; 'q' ends the loop.
MainReceivesInput ==
    /\ panicked = "none"
    /\ main_loop = "recv"
    /\ channel # <<>>
    /\ Recv(channel).event.event = "Input"
    /\ LET key == Recv(channel).event.key
       IN  /\ channel' = Recv(channel).rest
           /\ actions' = IF write_actions THEN Append(actions, key) ELSE actions
           /\ applied' = Append(applied, key)
           /\ IF key = KeyChar(QuitChar)
              THEN /\ main_loop' = "done"
                   /\ last_op' = "quit"
                   /\ UNCHANGED <<overflow_checks, panicked, chartVars,
                                  cursorVars, loadVars, wrapVars, appVars,
                                  replayVars, drawVars>>
              ELSE /\ main_loop' = "draw"
                   /\ HandleKey(key)
    /\ UNCHANGED <<worker, write_actions, sent>>

\* main, from App::new to the first pass of the loop: the worker is spawned
\* and the channel is empty.
InitMain ==
    /\ overflow_checks \in BOOLEAN
    /\ panicked = "none"
    /\ last_op = "App::new"
    /\ log \in {ExampleLog, LongLog}
    /\ LET new_app == NewApp(log)
       IN  /\ timestamps = new_app.timestamps
           /\ lines = new_app.lines
           /\ sorted_lines = new_app.sorted_lines
           /\ deltas = new_app.deltas
           /\ cumulative_deltas = new_app.cumulative_deltas
    /\ num_lines = Len(log)
    /\ interval = <<0, Len(log)>>
    /\ active = "Log"
    /\ log_scroll_state = NewScrollState(Len(log))
    /\ diff_scroll_state = NewScrollState(Len(log))
    /\ keys = 0
    /\ worker = "poll"
    /\ channel = <<>>
    /\ main_loop = "draw"
    /\ write_actions \in BOOLEAN
    /\ actions = <<>>
    /\ sent = <<>>
    /\ applied = <<>>
    /\ NoCursor
    /\ NoWrap
    /\ NoReplay
    /\ NoDraw

NextMain ==
    \/ \E key \in SessionKeys : WorkerSendsInput(key)
    \/ WorkerSendsTick
    \/ MainDraws
    \/ MainReceivesTick
    \/ MainReceivesInput

SpecMain == InitMain /\ [][NextMain]_vars

\* The keys of the Input events of a channel, oldest first.
RECURSIVE InputKeys(_)
InputKeys(ch) ==
    IF ch = <<>> THEN <<>>
    ELSE IF Head(ch).event = "Input"
    THEN <<Head(ch).key>> \o InputKeys(Tail(ch))
    ELSE InputKeys(Tail(ch))

\* The state the view is made from.
viewState ==
    <<active, log_scroll_state, diff_scroll_state, interval, num_lines, loadVars>>

\* C22: under every interleaving of the input worker and the main loop, the
\* view state is changed only by the main loop handling an Input; the keys
\* the main loop has applied, followed by the keys still in the channel,
\* are the keys the worker sent, in the same order and each exactly once;
\* nothing is applied after the first quit key, which ends the loop;
\* receiving a Tick changes no view state, and a step of the main loop
\* takes one event off the channel and applies at most one key.
C22_KeysAppliedInOrderExactlyOnce ==
    /\ [](/\ applied \o InputKeys(channel) = sent
          /\ \A i \in 1..(Len(applied) - 1) : applied[i] # KeyChar(QuitChar)
          /\ main_loop = "done" <=>
                 (applied # <<>> /\ applied[Len(applied)] = KeyChar(QuitChar))
          /\ (main_loop = "recv" /\ InputKeys(channel) = <<>>) =>
                 applied = sent)
    /\ [][/\ viewState' # viewState =>
                 /\ channel # <<>>
                 /\ Head(channel).event = "Input"
                 /\ applied' = Append(applied, Head(channel).key)
          /\ applied' # applied =>
                 /\ channel # <<>>
                 /\ channel' = Tail(channel)
                 /\ applied' = Append(applied, Head(channel).key)
                 /\ keys' <= keys + 1
          /\ last_op' = "recv(Tick)" =>
                 /\ Head(channel) = Tick
                 /\ channel' = Tail(channel)
                 /\ viewState' = viewState
                 /\ applied' = applied /\ keys' = keys
          /\ last_op' \in {"send(Input)", "send(Tick)", "draw"} =>
                 viewState' = viewState /\ applied' = applied /\ keys' = keys]_vars

\* Two keys were in the channel at once, a Tick between them; the main loop
\* has applied the first, which moved the current line, and then the quit
\* key, while the worker went on to send a Tick.
C22_Witness ==
    /\ main_loop = "done"
    /\ applied = <<KeyOf("Down"), KeyChar(QuitChar)>>
    /\ sent = applied
    /\ log_scroll_state.current_line = 1
    /\ channel = <<Tick>>
    /\ panicked = "none"

\* ---------------------------------------------------------------------
(* Gaugagraph::draw (gaugagraph.rs): the rows of a composer, with a bar *)

\* x * 100.0: the mantissa times 25, which has 57 or 58 bits, is rounded to
\* 53 bits, and the exponent takes the factor 4.
F64Times100(x) ==
    IF x.kind # "finite" \/ F64IsZero(x) THEN x
    ELSE LET p == U64Mul(25, x.mant).v
         IN  IF p[4] >= 512
             THEN RoundPack(x.sign, x.exp + 3, ShiftRightJam(p, 1))
             ELSE RoundPack(x.sign, x.exp + 2, p)

\* Style::default().bg(Color::Rgb(255, 184, 108)).fg(Color::Rgb(40, 42, 54)):
\* the style 0, which no symbol of a text has.
BarStyle == 0

\* A bar that is as long in every row as in the first.
InBarOfFirstRow(x, ratios, y) ==
    F64Lt(UsizeAsF64(x), F64Times100(ratios[1]))

\* (x as f64) < self.ratios[y as usize] * 100.0
InBar(x, ratios, y) == F64Lt(UsizeAsF64(x), F64Times100(ratios[y + 1]))

\* get_line_offset(line_width, text_area_width, Alignment::Left), the
\* alignment of Gaugagraph::new.
GetLineOffset(line_width, text_area_width) == 0

\* The for loop of draw over the symbols of a line: the cell at column x of
\* the row gets the symbol, with the bar style or with the symbol's style,
\* and x moves on by the width of the symbol.
RECURSIVE DrawSymbols(_, _, _, _, _)
DrawSymbols(line, x, ratios, y, scroll) ==
    IF line = <<>> THEN <<>>
    ELSE <<[x |-> x, y |-> y - scroll, symbol |-> Head(line).symbol,
            style |-> IF InBar(x, ratios, y) THEN BarStyle
                      ELSE Head(line).style]>>
             \o DrawSymbols(Tail(line), x + Width(Head(line).symbol), ratios,
                            y, scroll)

\* The loop of draw has left: y >= text_area.height + self.scroll.
DrawStopped == gauge.y >= gauge.height + gauge.scroll

\* The body of the while loop of draw, for the line that next_line has
\* just returned: the line is drawn unless it is scrolled away, and y moves
\* on.
DrawLine ==
    /\ returned = "Some"
    /\ gauge.y < Len(produced)
    /\ ~DrawStopped
    /\ LET current == produced[gauge.y + 1]
       IN  buf' = IF gauge.y >= gauge.scroll
                  THEN buf \o DrawSymbols(current.line,
                                  GetLineOffset(current.width, MaxLineWidth),
                                  gauge.ratios, gauge.y, gauge.scroll)
                  ELSE buf
    /\ gauge' = [gauge EXCEPT !.y = @ + 1]
    /\ last_op' = "draw"
    /\ UNCHANGED <<overflow_checks, panicked, chartVars, cursorVars, loadVars,
                   wrapVars, appVars, mainVars, replayVars>>

\* while let Some(..) = line_composer.next_line(): the composer is asked
\* for a line once the line before has been drawn.
DrawNextLine ==
    /\ gauge.y = Len(produced)
    /\ ~DrawStopped
    /\ returned = "Some"
    /\ NextCompose

\* The graphemes of the texts that are drawn: a letter, a wide letter, a
\* space and a newline.
DrawnGraphemes == {"a", "W", " ", Newline}
DrawnStreams ==
    UNION {{[i \in 1..n |-> Styled(g[i], i)] : g \in [1..n -> DrawnGraphemes]} :
               n \in 0..MaxSymbols}

\* The ratios of a text: one per row a text of MaxSymbols symbols can have.
\* No bar, a bar over the whole row, a bar that grows by a column per row,
\* one that ends within a column, and the ratio of a division of zero by
\* zero.
RatioVectors ==
    {[y \in 1..(MaxSymbols + 1) |-> F64Zero],
     [y \in 1..(MaxSymbols + 1) |-> F64One],
     [y \in 1..(MaxSymbols + 1) |-> F64Div(y, 100)],
     [y \in 1..(MaxSymbols + 1) |-> F64Div(2 * y - 1, 200)],
     [y \in 1..(MaxSymbols + 1) |-> NaN]}

\* Gaugagraph::draw, up to its loop: the composer is created over the
\* styled graphemes of the text and the width of the text area.
InitDraw ==
    /\ overflow_checks = FALSE
    /\ panicked = "none"
    /\ last_op = "new"
    /\ wrapping \in BOOLEAN
    /\ \E symbols \in DrawnStreams, width \in 1..MaxWidth :
           /\ source = symbols
           /\ word_wrapper =
                  IF wrapping THEN NewWordWrapper(symbols, width)
                  ELSE NewWordWrapper(<<>>, 0)
           /\ line_truncator =
                  IF wrapping THEN NoComposer
                  ELSE NewLineTruncator(symbols, width)
    /\ produced = <<>>
    /\ returned = "Some"
    /\ \E ratios \in RatioVectors, scroll \in 0..1, height \in {1, MaxSymbols + 1} :
           gauge = [ratios |-> ratios, scroll |-> scroll, height |-> height,
                    y |-> 0]
    /\ buf = <<>>
    /\ NoChart
    /\ NoCursor
    /\ NoLoad
    /\ NoApp
    /\ NoMain
    /\ NoReplay

NextDraw ==
    \/ DrawNextLine
    \/ DrawLine

SpecDraw == InitDraw /\ [][NextDraw]_vars

\* The rows that have been drawn: the lines returned that are not
\* scrolled away, by their index among the lines returned.
DrawnRows == gauge.scroll..(gauge.y - 1)

\* The column of the i-th symbol of a line: the widths of the symbols ahead
\* of it.
ColumnOf(line, i) == LineWidth(SubSeq(line, 1, i - 1))

\* The number of cells set for the drawn rows ahead of row y.
RECURSIVE CellsAhead(_)
CellsAhead(y) ==
    IF y <= gauge.scroll THEN 0
    ELSE CellsAhead(y - 1) + Len(produced[y].line)

\* Column x lies before the cutoff of row y: the ratio of the row times
\* 100, clamped to the width of the row.
BeforeCutoff(x, y) ==
    /\ F64Lt(UsizeAsF64(x), F64Times100(gauge.ratios[y + 1]))
    /\ x < MaxLineWidth

\* C32: for each drawn row, with the cutoff derived from the ratio of that
\* row and clamped to the display width of the row, every symbol at a
\* column before the cutoff is drawn with the bar style whatever its own
\* style, and every symbol at a column at or after the cutoff keeps its own
\* style; what is drawn for a row is given by the line and the ratio of
\* that row alone.
C32_BarStyleBeforeCutoffOnly ==
    /\ Len(buf) = CellsAhead(gauge.y)
    /\ \A y \in DrawnRows :
           LET line == produced[y + 1].line
           IN  \A i \in 1..Len(line) :
                   buf[CellsAhead(y) + i] =
                       [x |-> ColumnOf(line, i),
                        y |-> y - gauge.scroll,
                        symbol |-> line[i].symbol,
                        style |-> IF BeforeCutoff(ColumnOf(line, i), y)
                                  THEN BarStyle ELSE line[i].style]

\* Two rows have been drawn, and in one of them the bar ends within the
\* text: a symbol with the bar style and one with its own style.
C32_Witness ==
    /\ last_op = "draw"
    /\ \E i, j, k \in 1..Len(buf) :
           /\ buf[i].y = buf[j].y
           /\ buf[i].style = BarStyle
           /\ buf[j].style # BarStyle
           /\ buf[k].y # buf[i].y

\* C33: when the cutoff of a row lies past the end of its text, the
\* columns from the end of the text up to the cutoff are set to blank cells
\* with the bar style, so that the bar is as long as the cutoff even for a
\* line shorter than its bar.
C33_BarPaddedToCutoff ==
    \A y \in DrawnRows :
        \A x \in LineWidth(produced[y + 1].line)..(MaxLineWidth - 1) :
            BeforeCutoff(x, y) =>
                \E i \in 1..Len(buf) :
                    /\ buf[i].x = x
                    /\ buf[i].y = y - gauge.scroll
                    /\ buf[i].symbol = " "
                    /\ buf[i].style = BarStyle

\* ---------------------------------------------------------------------
(* App::elapsed_time_ratios_with_cutoff (app.rs) *)

\* lines.iter().map(|l| l.elapsed).max().unwrap().min(self.cutoff)
MaxDiff(ls, cutoff) ==
    Min(MaxOf({ls[i].elapsed : i \in 1..Len(ls)}), cutoff)

\* App::elapsed_time_ratios_with_cutoff: per line, elapsed / max_diff, both
\* as f64 of their milliseconds.
ElapsedTimeRatiosWithCutoff(ls, cutoff) ==
    [i \in 1..Len(ls) |-> F64Div(ls[i].elapsed, MaxDiff(ls, cutoff))]

\* The cutoffs of the model, in milliseconds: Duration::seconds(0), which
\* App::new sets, and the durations up to the longest span of a log.
Cutoffs == 0..MaxTime

\* C36: for any accepted log and any cutoff, the default cutoff of zero
\* included, every ratio elapsed_time_ratios_with_cutoff returns is computed
\* with a non-zero denominator and lies in [0, 1].
C36_RatiosWithinUnitInterval ==
    Constructed =>
        \A cutoff \in Cutoffs :
            /\ MaxDiff(lines, cutoff) # 0
            /\ \A i \in 1..Len(lines) :
                   LET ratio == ElapsedTimeRatiosWithCutoff(lines, cutoff)[i]
                   IN  F64Le(F64Zero, ratio) /\ F64Le(ratio, F64One)

\* ---------------------------------------------------------------------
\* C37: Home while the Log or the List panel is active returns the
\* horizontal scroll of that pane to 0 from any reachable state, whatever
\* number of Right and End actions came before; it changes neither pane's
\* current line nor the chart interval.
C37_HomeReturnsToLeftBoundary ==
    [][(last_op' = "on_home" /\ keys' = keys + 1 /\ active \in {"Log", "List"}) =>
           /\ active = "Log" => log_scroll_state'.horizontal_scroll = 0
           /\ active = "List" => diff_scroll_state'.horizontal_scroll = 0
           /\ log_scroll_state'.current_line = log_scroll_state.current_line
           /\ diff_scroll_state'.current_line = diff_scroll_state.current_line
           /\ interval' = interval]_vars

\* ---------------------------------------------------------------------
\* A key handled while the Chart panel is active that zooms the chart:
\* on_up calls zoom_in, on_down calls zoom_out, each on the current line of
\* the log pane.
ZoomRuns ==
    /\ keys' = keys + 1
    /\ active = "Chart"
    /\ last_op' \in {"on_up", "on_down"}

\* C34: in every App state reachable through the key handlers, whenever
\* zoom_in or zoom_out runs the current line of the log pane lies within
\* the chart interval (lower <= current line <= upper), so that neither
\* focus - lower nor upper - focus underflows, and the zoom completes
\* without failure.
C34_ZoomFocusWithinInterval ==
    [][ZoomRuns =>
           /\ interval[1] <= log_scroll_state.current_line
           /\ log_scroll_state.current_line <= interval[2]
           /\ panicked' = "none"]_vars

====
